---------------------------- MODULE Spec2Model ----------------------------
(***************************************************************************)
(* A model of the rusterize software rasterizer: the framebuffer with its  *)
(* depth test, the two triangle rasterizers behind the dispatcher, the     *)
(* clip-space Sutherland-Hodgman clipper and the part of Engine::update    *)
(* and Engine::render that connects them.                                  *)
(*                                                                         *)
(* Numbers.  The program computes in f32.  An f32 value is modelled as a   *)
(* binary fixed-point number: the integer n stands for n / 2^FracBits.     *)
(* Addition and subtraction are exact; a multiplication or a division      *)
(* returns the representable value nearest to the exact result (ties to    *)
(* even), as an f32 operation does.  Coordinates that are multiples of 1/2 *)
(* and their products are represented exactly, so the coverage decisions   *)
(* of the rasterizers on such triangles are those of the program.          *)
(***************************************************************************)
EXTENDS Integers, Sequences, FiniteSets

VARIABLES
    color_buffer,   \* Renderer.color_buffer: pixel index -> color
    depth_buffer,   \* Renderer.depth_buffer: pixel index -> stored 1/w
    writes,         \* history: the depth-tested writes issued since the last clear
    active,         \* RasterizerDispatcher.active
    triangles,      \* Engine.triangles_per_model, flattened in drawing order
    filled,         \* history: per fill_triangle call, the pixels it issued a write to
    face,           \* the clip-space triangle Engine::update hands to the clipper
    polygon,        \* the clipped polygon of that face
    pc,             \* position in the frame: which operation comes next
    projection,     \* Engine.projection: fov_y, aspect_ratio, z_near, z_far
    clip_position,  \* the clip-space position of the last point projected
    models,         \* Engine.models
    model_names,    \* Engine.model_names: name -> index into models
    loads,          \* history: how many add_model calls were made
    camera,         \* Engine.camera: position, yaw, pitch, roll, pitch limits
    backface_culling, \* Engine.backface_culling
    culled,         \* history: per face of the last update, what its loop body did
    render_mode,    \* Engine.render_mode
    draw_grid,      \* Engine.draw_grid
    calls,          \* history: the fill and overlay calls of the last render, in order
    texture,        \* Engine.global_texture: data, width, height
    texel,          \* the last Texture::sample call: u, v and the color returned
    normal,         \* the last Transform::normal_matrix call: the transform and the result
    frames,         \* history: how many render calls were made since the last update
    owners,         \* history: per entry of Engine.triangles_per_model, the id of the
                    \* model update built it from
    line,           \* the last draw_line_bresenham call: its arguments, the build, the
                    \* writes it issued and how it ended
    keyboard,       \* the keys held down on the keyboard
    event_pump,     \* the SDL events queued since the last poll, in arrival order
    window,         \* Window.input_state and Window.mouse_captured
    polled          \* the last poll_events call: the events it polled, the input
                    \* state it started from and the event it returned

\* the texture and what was sampled from it
textureVars == <<texture, texel>>

\* the state of the units that are exercised on their own
\* the units added to the model after the texture and the transform
windowVars == <<keyboard, event_pump, window, polled>>
laterVars == <<line, windowVars>>

\* what neither update nor render touches
sideVars == <<textureVars, normal, laterVars>>

unitVars == <<sideVars, frames, owners>>

\* the engine state the rasterization and clipping actions leave alone
engineRest == <<projection, clip_position, models, model_names, loads, camera,
                backface_culling, culled, render_mode, draw_grid, calls>>
engineVars == <<engineRest, unitVars>>

vars == <<color_buffer, depth_buffer, writes, active, triangles, filled, face, polygon, pc,
          projection, clip_position, models, model_names, loads, camera,
          backface_culling, culled, render_mode, draw_grid, calls, texture, texel,
          normal, frames, owners, line, keyboard, event_pump, window, polled>>

---------------------------------------------------------------------------
(* Bounds of the model *)

FracBits == 8        \* fractional bits kept by the modelled float
FbWidth == 4         \* framebuffer width in pixels
FbHeight == 4        \* framebuffer height in pixels
MaxWrites == 3       \* longest history of direct framebuffer writes
MaxDepth == 2        \* direct writes use depths 1..MaxDepth (stored 1/w, positive)
I32Bits == 5         \* bits kept by the modelled i32

---------------------------------------------------------------------------
(* f32 arithmetic *)

Pow2(n) == 2^n
One == Pow2(FracBits)
Half == One \div 2

Abs(a) == IF a < 0 THEN -a ELSE a
Min2(a, b) == IF a < b THEN a ELSE b
Max2(a, b) == IF a < b THEN b ELSE a
Sign(a) == IF a > 0 THEN 1 ELSE IF a < 0 THEN -1 ELSE 0

\* n / d rounded to the nearest integer, ties to even (d # 0)
RoundDivPos(n, d) ==
    LET q == n \div d
        r == n - q * d
    IN  IF 2 * r < d THEN q
        ELSE IF 2 * r > d THEN q + 1
        ELSE IF q % 2 = 0 THEN q ELSE q + 1

RoundDiv(n, d) == IF d > 0 THEN RoundDivPos(n, d) ELSE RoundDivPos(-n, -d)

FMul(a, b) == RoundDiv(a * b, One)
FDiv(a, b) == RoundDiv(a * One, b)
FromInt(i) == i * One
Floor(a) == a \div One
Ceil(a) == -((-a) \div One)

\* f32::EPSILON is the spacing of the floats at 1.0: one unit of the model
EPSILON == 1

---------------------------------------------------------------------------
(* Colors *)

\* colors are kept by name; a mix of different colors is the color "blend"
BACKGROUND == "background"
Colors == {"red", "blue"}

\* a weighted mix of three colors (weights summing to one), packed again:
\* three equal colors mix to themselves
MixColors(cs) == IF cs[1] = cs[2] /\ cs[2] = cs[3] THEN cs[1] ELSE "blend"

---------------------------------------------------------------------------
(* FrameBuffer / Renderer: bounds-checked pixel writes *)

Pixels == (0 .. FbWidth - 1) \X (0 .. FbHeight - 1)
PixelIndex == 0 .. FbWidth * FbHeight - 1
Idx(x, y) == y * FbWidth + x
InRange(x, y) == x >= 0 /\ x < FbWidth /\ y >= 0 /\ y < FbHeight

ClearedColor == [i \in PixelIndex |-> BACKGROUND]
ClearedDepth == [i \in PixelIndex |-> 0]
Cleared == [color |-> ClearedColor, depth |-> ClearedDepth]

\* the depth test of set_pixel_with_depth: larger 1/w is closer
DepthTestAlways(depth, stored) == TRUE
DepthTestNotStrict(depth, stored) == depth >= stored
DepthTestPasses(depth, stored) == depth > stored

\* a set_pixel_with_depth that stores the color but forgets to store the depth
SetPixelDepthNotStored(fb, x, y, depth, color) ==
    IF InRange(x, y) /\ DepthTestPasses(depth, fb.depth[Idx(x, y)])
    THEN [fb EXCEPT !.color = [fb.color EXCEPT ![Idx(x, y)] = color]]
    ELSE fb

\* FrameBuffer::set_pixel_with_depth on the pair fb = [color, depth]
SetPixelWithDepth(fb, x, y, depth, color) ==
    IF InRange(x, y) /\ DepthTestPasses(depth, fb.depth[Idx(x, y)])
    THEN [color |-> [fb.color EXCEPT ![Idx(x, y)] = color],
          depth |-> [fb.depth EXCEPT ![Idx(x, y)] = depth]]
    ELSE fb

\* FrameBuffer::set_pixel: no depth test, the depth buffer is left alone
SetPixel(fb, x, y, color) ==
    IF InRange(x, y)
    THEN [fb EXCEPT !.color = [fb.color EXCEPT ![Idx(x, y)] = color]]
    ELSE fb

Fb == [color |-> color_buffer, depth |-> depth_buffer]

RECURSIVE ApplyWrites(_, _)
\* a sequence of set_pixel_with_depth calls applied in order
ApplyWrites(fb, ws) ==
    IF ws = <<>> \/ DOMAIN fb.color = {} THEN fb
    ELSE ApplyWrites(SetPixelWithDepth(fb, ws[1].x, ws[1].y, ws[1].depth, ws[1].color),
                     Tail(ws))

---------------------------------------------------------------------------
(* Screen-space triangles: x, y are pixel coordinates, z holds the clip-space w *)

Pt(x, y, z) == [x |-> x, y |-> y, z |-> z]

Tri(p0, p1, p2, color, vcolors, shading) ==
    [points |-> <<p0, p1, p2>>, color |-> color,
     vertex_colors |-> vcolors, shading_mode |-> shading]

\* the pixel center sampled for pixel (x, y)
CenterX(x) == FromInt(x) + Half
CenterY(y) == FromInt(y) + Half

---------------------------------------------------------------------------
(* EdgeFunctionRasterizer *)

EdgeFunction(a, b, p) == FMul(b.x - a.x, p.y - a.y) - FMul(b.y - a.y, p.x - a.x)

IsTopLeft(a, b) ==
    LET dx == b.x - a.x
        dy == b.y - a.y
    IN  (dy = 0 /\ dx < 0) \/ dy < 0

\* the bias of an edge: 0.0 for a top-left edge, -1.0 otherwise
EdgeBias(a, b) == IF IsTopLeft(a, b) THEN 0 ELSE -One

\* the bounding box of the triangle, clipped to the framebuffer
BoxMinX(v0, v1, v2) == Max2(Floor(Min2(Min2(v0.x, v1.x), v2.x)), 0)
BoxMaxX(v0, v1, v2) == Min2(Ceil(Max2(Max2(v0.x, v1.x), v2.x)), FbWidth - 1)
BoxMinY(v0, v1, v2) == Max2(Floor(Min2(Min2(v0.y, v1.y), v2.y)), 0)
BoxMaxY(v0, v1, v2) == Min2(Ceil(Max2(Max2(v0.y, v1.y), v2.y)), FbHeight - 1)

\* the inside test of rasterize_with_shader at the center of pixel (x, y)
EdgeInside(v0, v1, v2, x, y) ==
    LET p == Pt(CenterX(x), CenterY(y), 0)
        area == EdgeFunction(v0, v1, v2)
        w0 == EdgeFunction(v1, v2, p)
        w1 == EdgeFunction(v2, v0, p)
        w2 == EdgeFunction(v0, v1, p)
        bias0 == EdgeBias(v1, v2)
        bias1 == EdgeBias(v2, v0)
        bias2 == EdgeBias(v0, v1)
    IN  IF area > 0
        THEN (w0 + bias0) >= 0 /\ (w1 + bias1) >= 0 /\ (w2 + bias2) >= 0
        ELSE (w0 - bias0) <= 0 /\ (w1 - bias1) <= 0 /\ (w2 - bias2) <= 0

\* the pixels rasterize_with_shader calls set_pixel_with_depth for
EdgePixels(v0, v1, v2) ==
    IF Abs(EdgeFunction(v0, v1, v2)) < EPSILON THEN {}
    ELSE {px \in Pixels :
            /\ px[1] >= BoxMinX(v0, v1, v2) /\ px[1] <= BoxMaxX(v0, v1, v2)
            /\ px[2] >= BoxMinY(v0, v1, v2) /\ px[2] <= BoxMaxY(v0, v1, v2)
            /\ EdgeInside(v0, v1, v2, px[1], px[2])}

\* barycentric weights taken from the biased edge values of the inside test
EdgeLambdaBiased(v0, v1, v2, x, y) ==
    LET p == Pt(CenterX(x), CenterY(y), 0)
        inv_area == FDiv(One, EdgeFunction(v0, v1, v2))
        sign == IF EdgeFunction(v0, v1, v2) > 0 THEN 1 ELSE -1
    IN  <<FMul(EdgeFunction(v1, v2, p) + sign * EdgeBias(v1, v2), inv_area),
          FMul(EdgeFunction(v2, v0, p) + sign * EdgeBias(v2, v0), inv_area),
          FMul(EdgeFunction(v0, v1, p) + sign * EdgeBias(v0, v1), inv_area)>>

\* the barycentric weights at pixel (x, y): unbiased edge values times 1/area
EdgeLambda(v0, v1, v2, x, y) ==
    LET p == Pt(CenterX(x), CenterY(y), 0)
        inv_area == FDiv(One, EdgeFunction(v0, v1, v2))
    IN  <<FMul(EdgeFunction(v1, v2, p), inv_area),
          FMul(EdgeFunction(v2, v0, p), inv_area),
          FMul(EdgeFunction(v0, v1, p), inv_area)>>

\* the interpolated 1/w written at pixel (x, y)
EdgeDepth(v0, v1, v2, x, y) ==
    LET lambda == EdgeLambda(v0, v1, v2, x, y)
    IN  FMul(lambda[1], FDiv(One, v0.z)) + FMul(lambda[2], FDiv(One, v1.z))
          + FMul(lambda[3], FDiv(One, v2.z))

\* FlatShader::shade returns the fill color, GouraudShader::shade the mix of
\* the vertex colors weighted by lambda
ShadeColor(tri) ==
    IF tri.shading_mode = "Gouraud" THEN MixColors(tri.vertex_colors) ELSE tri.color

RECURSIVE EdgeWrites(_, _, _, _, _, _)
\* the set_pixel_with_depth calls of rasterize_with_shader over the covered
\* pixels (each pixel is written once, so their order does not matter)
EdgeWrites(fb, v0, v1, v2, cover, color) ==
    IF cover = {} THEN fb
    ELSE LET px == CHOOSE q \in cover : TRUE
         IN  EdgeWrites(SetPixelWithDepth(fb, px[1], px[2],
                                          EdgeDepth(v0, v1, v2, px[1], px[2]), color),
                        v0, v1, v2, cover \ {px}, color)

\* EdgeFunctionRasterizer::fill_triangle (no texture loaded): the shader is
\* chosen by the shading mode, every covered pixel goes through the depth test
EdgeFill(fb, tri) ==
    EdgeWrites(fb, tri.points[1], tri.points[2], tri.points[3],
               EdgePixels(tri.points[1], tri.points[2], tri.points[3]), ShadeColor(tri))

---------------------------------------------------------------------------
(* ScanlineRasterizer *)

\* sort_vertices: three compare-and-swap steps on the y coordinate
SortVertices(v0, v1, v2) ==
    LET s1 == IF v1.y < v0.y THEN <<v1, v0, v2>> ELSE <<v0, v1, v2>>
        s2 == IF s1[3].y < s1[2].y THEN <<s1[1], s1[3], s1[2]>> ELSE s1
    IN  IF s2[2].y < s2[1].y THEN <<s2[2], s2[1], s2[3]>> ELSE s2

\* the pixels of one span: row y, columns ceil(min(x1,x2)) .. floor(max(x1,x2))
SpanPixels(y, x1, x2) ==
    {px \in Pixels : px[2] = y /\ px[1] >= Ceil(Min2(x1, x2)) /\ px[1] <= Floor(Max2(x1, x2))}

\* fill_flat_bottom_solid / fill_flat_bottom_gouraud: v0 on top, v1.y = v2.y
FlatBottomPixels(v0, v1, v2) ==
    LET height == v1.y - v0.y
    IN  IF Abs(height) < EPSILON THEN {}
        ELSE LET inv_slope_1 == FDiv(v1.x - v0.x, height)
                 inv_slope_2 == FDiv(v2.x - v0.x, height)
             IN  UNION {SpanPixels(y, v0.x + FMul(inv_slope_1, FromInt(y) - v0.y),
                                      v0.x + FMul(inv_slope_2, FromInt(y) - v0.y)) :
                          y \in Ceil(v0.y) .. Floor(v1.y)}

\* fill_flat_top_solid / fill_flat_top_gouraud: v0.y = v1.y, v2 at the bottom
FlatTopPixels(v0, v1, v2) ==
    LET height == v2.y - v0.y
    IN  IF Abs(height) < EPSILON THEN {}
        ELSE LET inv_slope_1 == FDiv(v2.x - v0.x, height)
                 inv_slope_2 == FDiv(v2.x - v1.x, height)
             IN  UNION {SpanPixels(y, v0.x + FMul(inv_slope_1, FromInt(y) - v0.y),
                                      v1.x + FMul(inv_slope_2, FromInt(y) - v0.y)) :
                          y \in Ceil(v0.y) .. Floor(v2.y)}

\* the pixels ScanlineRasterizer::fill_triangle writes, in either shading mode
ScanlinePixels(p0, p1, p2) ==
    LET s == SortVertices(p0, p1, p2)
        v0 == s[1]
        v1 == s[2]
        v2 == s[3]
    IN  IF Abs(v1.y - v2.y) < EPSILON THEN FlatBottomPixels(v0, v1, v2)
        ELSE IF Abs(v0.y - v1.y) < EPSILON THEN FlatTopPixels(v0, v1, v2)
        ELSE LET t == FDiv(v1.y - v0.y, v2.y - v0.y)
                 split_point == Pt(v0.x + FMul(v2.x - v0.x, t), v1.y, 0)
             IN  FlatBottomPixels(v0, v1, split_point) \cup FlatTopPixels(v1, split_point, v2)

RECURSIVE SetPixelSpans(_, _, _)
\* the set_pixel calls of the Gouraud fills over the spans: no depth is tested
\* or stored
SetPixelSpans(fb, cover, color) ==
    IF cover = {} THEN fb
    ELSE LET px == CHOOSE q \in cover : TRUE
         IN  SetPixelSpans(SetPixel(fb, px[1], px[2], color), cover \ {px}, color)

\* FrameBuffer::fill_scanline(y, x_left, x_right, color) over the spans of the
\* solid fills: it receives no depth, and stores the color from x_left to
\* x_right inside the framebuffer
FillScanlines(fb, cover, color) ==
    [fb EXCEPT !.color = [i \in PixelIndex |->
        IF <<i % FbWidth, i \div FbWidth>> \in cover THEN color ELSE fb.color[i]]]

\* ScanlineRasterizer::fill_triangle: the Gouraud fills or the solid fills
ScanlineFill(fb, tri) ==
    LET cover == ScanlinePixels(tri.points[1], tri.points[2], tri.points[3])
    IN  IF tri.shading_mode = "Gouraud"
        THEN SetPixelSpans(fb, cover, ShadeColor(tri))
        ELSE FillScanlines(fb, cover, tri.color)

---------------------------------------------------------------------------
(* RasterizerDispatcher *)

RasterizerTypes == {"Scanline", "EdgeFunction"}

\* RasterizerDispatcher::fill_triangle
FillTriangle(fb, tri, type) ==
    IF type = "Scanline" THEN ScanlineFill(fb, tri) ELSE EdgeFill(fb, tri)

\* the pixels the selected rasterizer issues a write to
FillPixels(tri, type) ==
    IF type = "Scanline"
    THEN ScanlinePixels(tri.points[1], tri.points[2], tri.points[3])
    ELSE EdgePixels(tri.points[1], tri.points[2], tri.points[3])

RECURSIVE FillAll(_, _, _)
\* the fill loop of Engine::render over the triangle list
FillAll(fb, tris, type) ==
    IF tris = <<>> THEN fb
    ELSE FillAll(FillTriangle(fb, tris[1], type), Tail(tris), type)

---------------------------------------------------------------------------
(* Clip space: ClipSpaceVertex positions and the Sutherland-Hodgman clipper *)

Vec4(x, y, z, w) == [x |-> x, y |-> y, z |-> z, w |-> w]

\* Vec4::lerp (ClipSpaceVertex::lerp on the position): a + (b - a) * t
Lerp(a, b, t) ==
    Vec4(a.x + FMul(b.x - a.x, t), a.y + FMul(b.y - a.y, t),
         a.z + FMul(b.z - a.z, t), a.w + FMul(b.w - a.w, t))

\* ClipSpaceClipper::new: the six planes in clipping order
Planes == <<"Left", "Right", "Bottom", "Top", "Near", "Far">>

\* ClipPlane::signed_distance
SignedDistance(plane, p) ==
    CASE plane = "Left" -> p.w + p.x
      [] plane = "Right" -> p.w - p.x
      [] plane = "Bottom" -> p.w + p.y
      [] plane = "Top" -> p.w - p.y
      [] plane = "Near" -> p.w + p.z
      [] plane = "Far" -> p.w - p.z

\* a test that keeps every vertex
InsideAlways(d) == TRUE
\* the inside test of clip_against_plane
Inside(d) == d >= 0

RECURSIVE ClipEdgesNoEntry(_, _, _)
\* a loop that adds no intersection where an edge comes back inside
ClipEdgesNoEntry(vs, plane, i) ==
    IF i > Len(vs) THEN <<>>
    ELSE LET current == vs[i]
             next == vs[(i % Len(vs)) + 1]
             d1 == SignedDistance(plane, current)
             d2 == SignedDistance(plane, next)
             crossing == Lerp(current, next, FDiv(d1, d1 - d2))
             out == IF Inside(d1)
                    THEN IF ~Inside(d2) THEN <<current, crossing>> ELSE <<current>>
                    ELSE <<>>
         IN  out \o ClipEdgesNoEntry(vs, plane, i + 1)

RECURSIVE ClipEdges(_, _, _)
\* the loop of clip_against_plane from edge i on: what each edge appends
ClipEdges(vs, plane, i) ==
    IF i > Len(vs) THEN <<>>
    ELSE LET current == vs[i]
             next == vs[(i % Len(vs)) + 1]
             d1 == SignedDistance(plane, current)
             d2 == SignedDistance(plane, next)
             crossing == Lerp(current, next, FDiv(d1, d1 - d2))
             out == IF Inside(d1)
                    THEN IF ~Inside(d2) THEN <<current, crossing>> ELSE <<current>>
                    ELSE IF Inside(d2) THEN <<crossing>> ELSE <<>>
         IN  out \o ClipEdges(vs, plane, i + 1)

\* a clip that returns its input
ClipKeepsAll(vs, plane) == vs
\* ClipSpacePolygon::clip_against_plane
ClipAgainstPlane(vs, plane) == IF Len(vs) < 3 THEN <<>> ELSE ClipEdges(vs, plane, 1)

\* ClipSpacePolygon::is_empty
IsEmpty(vs) == Len(vs) < 3

RECURSIVE ClipFrom(_, _)
\* the loop of clip_polygon from plane k on, leaving it when the polygon is empty
ClipFrom(vs, k) ==
    IF k > Len(Planes) \/ IsEmpty(vs) THEN vs
    ELSE ClipFrom(ClipAgainstPlane(vs, Planes[k]), k + 1)

\* ClipSpaceClipper::clip_polygon
ClipPolygon(vs) == ClipFrom(vs, 1)

\* ClipSpacePolygon::triangulate: the fan around the first vertex
Triangulate(vs) ==
    IF Len(vs) < 3 THEN <<>>
    ELSE [i \in 1 .. Len(vs) - 2 |-> <<vs[1], vs[i + 1], vs[i + 2]>>]

---------------------------------------------------------------------------
(* Engine::update from the clipper on: perspective divide and viewport *)

\* the validity check that pushes every fan triangle
AllValidAlways(ps) == TRUE
\* all_valid: no vertex of the fan triangle has w <= 0
AllValid(ps) == \A i \in 1 .. Len(ps) : ~(ps[i].w <= 0)

\* one screen vertex: perspective divide, viewport transform, w kept in z
ScreenVertex(p) ==
    LET ndc_x == FDiv(p.x, p.w)
        ndc_y == FDiv(p.y, p.w)
    IN  Pt(FMul(FMul(ndc_x + One, Half), FromInt(FbWidth)),
           FMul(FMul(One - ndc_y, Half), FromInt(FbHeight)),
           p.w)

\* screen_vertices after the vertex loop: the loop breaks at the first vertex
\* with w <= 0, which leaves that entry and the later ones at Vec3::ZERO
ScreenVertices(ps) ==
    [i \in 1 .. Len(ps) |->
        IF \E j \in 1 .. i : ps[j].w <= 0 THEN Pt(0, 0, 0) ELSE ScreenVertex(ps[i])]

RECURSIVE PushValid(_, _, _)
\* the fan loop: each fan triangle that is valid is pushed, in fan order
PushValid(fan, color, shading) ==
    IF fan = <<>> THEN <<>>
    ELSE LET sv == ScreenVertices(fan[1])
             rest == PushValid(Tail(fan), color, shading)
         IN  IF AllValid(fan[1])
             THEN <<Tri(sv[1], sv[2], sv[3], color, <<color, color, color>>, shading)>> \o rest
             ELSE rest

\* the triangles update pushes for one clipped polygon
ScreenTriangles(vs, color, shading) ==
    IF IsEmpty(vs) THEN <<>> ELSE PushValid(Triangulate(vs), color, shading)

---------------------------------------------------------------------------
(* Vec3 and Mat4: column vectors on the right, data[row][col] *)

Vec3(x, y, z) == [x |-> x, y |-> y, z |-> z]

\* Vec3 subtraction, dot and cross product
Sub3(a, b) == Vec3(a.x - b.x, a.y - b.y, a.z - b.z)
Dot(a, b) == FMul(a.x, b.x) + FMul(a.y, b.y) + FMul(a.z, b.z)
Cross(a, b) ==
    Vec3(FMul(a.y, b.z) - FMul(a.z, b.y),
         FMul(a.z, b.x) - FMul(a.x, b.z),
         FMul(a.x, b.y) - FMul(a.y, b.x))

\* Vec4::from_vec3
FromVec3(v, w) == Vec4(v.x, v.y, v.z, w)

\* Mat4 * Vec4: the homogeneous transform, no division
RowTimes(row, v) ==
    FMul(row[1], v.x) + FMul(row[2], v.y) + FMul(row[3], v.z) + FMul(row[4], v.w)
Vec4Of(t) == Vec4(t[1], t[2], t[3], t[4])
MulVec4(m, v) == Vec4Of([r \in 1 .. 4 |-> RowTimes(m[r], v)] \o <<>>)

\* Mat4::perspective_lh; the field of view enters through tan(fov / 2) only
PerspectiveLh(tan_half_fov, aspect_ratio, near, far) ==
    LET t == FMul(near, tan_half_fov)
        r == FMul(t, aspect_ratio)
        a == FDiv(far + near, near - far)
        b == FDiv(FMul(FMul(-2 * One, far), near), far - near)
    IN  << <<FDiv(near, r), 0, 0, 0>>,
           <<0, FDiv(near, t), 0, 0>>,
           <<0, 0, a, b>>,
           <<0, 0, One, 0>> >>

---------------------------------------------------------------------------
(* Projection *)

\* the tangent of half the vertical field of view, for the two fields of
\* view the model uses (given in degrees): tan(22.5 deg) and tan(45 deg)
TanHalfFov(fov_y) ==
    IF fov_y = 90 THEN One ELSE RoundDiv(41421 * One, 100000)

\* Projection::matrix
ProjectionMatrix(p) ==
    PerspectiveLh(TanHalfFov(p.fov_y), p.aspect_ratio, p.z_near, p.z_far)

\* Projection::new
NewProjection(fov_y, aspect_ratio, z_near, z_far) ==
    [fov_y |-> fov_y, aspect_ratio |-> aspect_ratio, z_near |-> z_near, z_far |-> z_far]

\* the projection of Engine::new: 45 degrees, width / height, 0.1, 100.0
DefaultProjection ==
    NewProjection(45, FDiv(FromInt(FbWidth), FromInt(FbHeight)),
                  RoundDiv(One, 10), FromInt(100))

---------------------------------------------------------------------------
(* FpsCamera *)

\* std::f32::consts::PI and TAU
PI == RoundDiv(355 * One, 113)
TAU == 2 * PI

\* f32::to_radians
ToRadians(degrees) == RoundDiv(degrees * PI, 180)

\* FpsCamera::new
NewCamera(position) ==
    [position |-> position, yaw |-> 0, pitch |-> 0, roll |-> 0,
     pitch_min |-> -ToRadians(89), pitch_max |-> ToRadians(89)]

HalfPi == PI \div 2
QuarterPi == PI \div 4

RECURSIVE FloorSqrt(_, _)
\* the integer square root of n by Newton's iteration from the estimate x
FloorSqrt(n, x) ==
    LET y == (x + n \div x) \div 2
    IN  IF y >= x THEN x ELSE FloorSqrt(n, y)

\* f32::sqrt: the representable value nearest to the root
Sqrt(v) ==
    LET n == v * One
        r == IF n = 0 THEN 0 ELSE FloorSqrt(n, n)
    IN  IF n - r * r > r THEN r + 1 ELSE r

\* sin on [0, pi], by Bhaskara's rational approximation; it is exact at 0,
\* pi/2 and pi and within one unit of the model's resolution elsewhere
SinHalfTurn(x) ==
    RoundDiv(16 * x * (PI - x) * One, 5 * PI * PI - 4 * x * (PI - x))

\* f32::sin
SinTurn(r) == IF r <= PI THEN SinHalfTurn(r) ELSE -SinHalfTurn(r - PI)
Sin(angle) == SinTurn(angle % TAU)

\* f32::cos
Cos(angle) == Sin(angle + HalfPi)

\* atan on [0, 1], within two units of the model's resolution
AtanUnit(t) == FMul(QuarterPi, t) + FMul(FMul(70, t), One - t)

\* f32::atan2(y, x): the angle of the point (x, y), in [-pi, pi]
Atan2(y, x) ==
    LET base == IF x = 0 /\ y = 0 THEN 0
                ELSE IF Abs(y) <= Abs(x) THEN AtanUnit(FDiv(Abs(y), Abs(x)))
                ELSE HalfPi - AtanUnit(FDiv(Abs(x), Abs(y)))
        angle == IF x >= 0 /\ (x # 0 \/ y # 0) THEN base
                 ELSE IF x < 0 THEN PI - base
                 ELSE 0
    IN  IF y < 0 THEN -angle ELSE angle

\* an angle that is added to and not wrapped
NoWrap(a, m) == a
\* f32::rem_euclid: the non-negative remainder
RemEuclid(a, m) == a % m

\* a value that is not clamped
NoClamp(v, min, max) == v
\* f32::clamp for min <= max (it panics otherwise)
Clamp(v, min, max) == IF v < min THEN min ELSE IF v > max THEN max ELSE v

Add3(a, b) == Vec3(a.x + b.x, a.y + b.y, a.z + b.z)
Scale3(v, scalar) == Vec3(FMul(v.x, scalar), FMul(v.y, scalar), FMul(v.z, scalar))
Magnitude(v) == Sqrt(FMul(v.x, v.x) + FMul(v.y, v.y) + FMul(v.z, v.z))
Div3(v, scalar) == Vec3(FDiv(v.x, scalar), FDiv(v.y, scalar), FDiv(v.z, scalar))
Normalize(v) == Div3(v, Magnitude(v))

\* Mat4 constructors: a matrix is its four rows
Translation(x, y, z) ==
    <<<<One, 0, 0, x>>, <<0, One, 0, y>>, <<0, 0, One, z>>, <<0, 0, 0, One>>>>
Scaling(x, y, z) ==
    <<<<x, 0, 0, 0>>, <<0, y, 0, 0>>, <<0, 0, z, 0>>, <<0, 0, 0, One>>>>
RotationX(angle) ==
    LET c == Cos(angle)
        s == Sin(angle)
    IN  <<<<One, 0, 0, 0>>, <<0, c, s, 0>>, <<0, -s, c, 0>>, <<0, 0, 0, One>>>>
RotationY(angle) ==
    LET c == Cos(angle)
        s == Sin(angle)
    IN  <<<<c, 0, -s, 0>>, <<0, One, 0, 0>>, <<s, 0, c, 0>>, <<0, 0, 0, One>>>>
RotationZ(angle) ==
    LET c == Cos(angle)
        s == Sin(angle)
    IN  <<<<c, s, 0, 0>>, <<-s, c, 0, 0>>, <<0, 0, One, 0>>, <<0, 0, 0, One>>>>

\* one element of Mat4 * Mat4
MatMulAt(a, b, row, col) ==
    FMul(a[row][1], b[1][col]) + FMul(a[row][2], b[2][col])
      + FMul(a[row][3], b[3][col]) + FMul(a[row][4], b[4][col])

\* Mat4 * Mat4
MatMul(a, b) ==
    [row \in 1 .. 4 |-> [col \in 1 .. 4 |-> MatMulAt(a, b, row, col)] \o <<>>] \o <<>>

Transpose(m) ==
    [row \in 1 .. 4 |-> [col \in 1 .. 4 |-> m[col][row]] \o <<>>] \o <<>>

\* Mat4::identity
Identity ==
    <<<<One, 0, 0, 0>>, <<0, One, 0, 0>>, <<0, 0, One, 0>>, <<0, 0, 0, One>>>>

\* Option::None
None == <<>>

\* the rows (or columns) other than k, in order
Others(k) == SelectSeq(<<1, 2, 3, 4>>, LAMBDA i : i # k)

\* the 2x2 determinants inside the cofactors of Mat4::inverse
Det2(m, b, d, q, s) == FMul(m[b][q], m[d][s]) - FMul(m[b][s], m[d][q])

\* the 3x3 determinant over three rows and three columns, expanded along
\* the first of the rows as every cofactor of Mat4::inverse is
Det3(m, rows, cols) ==
    FMul(m[rows[1]][cols[1]], Det2(m, rows[2], rows[3], cols[2], cols[3]))
      - FMul(m[rows[1]][cols[2]], Det2(m, rows[2], rows[3], cols[1], cols[3]))
      + FMul(m[rows[1]][cols[3]], Det2(m, rows[2], rows[3], cols[1], cols[2]))

\* the cofactor c<row><col> of Mat4::inverse (rows and columns from 1)
Cofactor(m, row, col) ==
    IF (row + col) % 2 = 0 THEN Det3(m, Others(row), Others(col))
    ELSE -Det3(m, Others(row), Others(col))

\* the determinant of Mat4::inverse: expansion along the first row
Determinant(m) ==
    FMul(m[1][1], Cofactor(m, 1, 1)) + FMul(m[1][2], Cofactor(m, 1, 2))
      + FMul(m[1][3], Cofactor(m, 1, 3)) + FMul(m[1][4], Cofactor(m, 1, 4))

\* the transposed cofactor matrix times 1 / det
Adjugate(m, inv_det) ==
    [row \in 1 .. 4 |->
        [col \in 1 .. 4 |-> FMul(Cofactor(m, col, row), inv_det)] \o <<>>] \o <<>>

\* Mat4::inverse: None when the determinant is below f32::EPSILON in size
Inverse(m) ==
    IF Abs(Determinant(m)) < EPSILON THEN None
    ELSE Adjugate(m, FDiv(One, Determinant(m)))

\* Option::unwrap_or
UnwrapOr(option, default) == IF option = None THEN default ELSE option

\* Mat4::get(row, col), 0-based
Get(m, row, col) == m[row + 1][col + 1]

\* Mat4 * Vec3: a point with w = 1, divided by w when w is neither 0 nor 1
DivideByW(r) ==
    IF r.w # 0 /\ r.w # One
    THEN Vec3(FDiv(r.x, r.w), FDiv(r.y, r.w), FDiv(r.z, r.w))
    ELSE Vec3(r.x, r.y, r.z)
MulVec3(m, v) == DivideByW(MulVec4(m, FromVec3(v, One)))

\* FpsCamera::rotation_matrix: Ry(-yaw) * Rx(pitch) * Rz(-roll)
RotationMatrix(c) ==
    MatMul(MatMul(RotationY(-c.yaw), RotationX(c.pitch)), RotationZ(-c.roll))

\* FpsCamera::forward, right, up: columns of the rotation matrix
Column(rot, col) == Vec3(Get(rot, 0, col), Get(rot, 1, col), Get(rot, 2, col))
Negated(v) == Vec3(-v.x, -v.y, -v.z)
Forward(c) == Normalize(Column(RotationMatrix(c), 2))
Right(c) == Normalize(Column(RotationMatrix(c), 0))
Up(c) == Normalize(Negated(Column(RotationMatrix(c), 1)))

\* FpsCamera::view_matrix: the transposed rotation with -(R^T * position)
\* in the last column
ViewRows(rot_transposed, translated) ==
    <<<<rot_transposed[1][1], rot_transposed[1][2], rot_transposed[1][3], translated.x>>,
      <<rot_transposed[2][1], rot_transposed[2][2], rot_transposed[2][3], translated.y>>,
      <<rot_transposed[3][1], rot_transposed[3][2], rot_transposed[3][3], translated.z>>,
      <<0, 0, 0, One>>>>
ViewAt(rot_transposed, neg_pos) ==
    ViewRows(rot_transposed, MulVec3(rot_transposed, neg_pos))
ViewMatrix(c) == ViewAt(Transpose(RotationMatrix(c)), Scale3(c.position, -One))

\* f32::EPSILON (2^-23) lies below the resolution of the model: a value is
\* above it exactly when it is positive
F32Epsilon == 0

\* FpsCamera::rotate_yaw
RotateYaw(c, delta) == [c EXCEPT !.yaw = RemEuclid(c.yaw + delta, TAU)]

\* FpsCamera::rotate_pitch
RotatePitch(c, delta) ==
    [c EXCEPT !.pitch = Clamp(c.pitch + delta, c.pitch_min, c.pitch_max)]

\* FpsCamera::rotate
Rotate(c, yaw_delta, pitch_delta) == RotatePitch(RotateYaw(c, yaw_delta), pitch_delta)

\* FpsCamera::rotate_roll: wrapped, then brought into (-pi, pi]
RotateRoll(c, delta) ==
    LET roll == RemEuclid(c.roll + delta, TAU)
    IN  [c EXCEPT !.roll = IF roll > PI THEN roll - TAU ELSE roll]

\* FpsCamera::look_at
LookAt(c, target) ==
    LET direction == Sub3(target, c.position)
        horizontal_len == Sqrt(FMul(direction.x, direction.x) + FMul(direction.z, direction.z))
        yaw == IF horizontal_len > F32Epsilon THEN Atan2(direction.x, direction.z) ELSE c.yaw
        pitch == IF Magnitude(direction) > F32Epsilon
                 THEN Clamp(Atan2(direction.y, horizontal_len), c.pitch_min, c.pitch_max)
                 ELSE c.pitch
    IN  [c EXCEPT !.yaw = yaw, !.pitch = pitch]

\* FpsCamera::set_pitch_limits up to its clamp: the limits are stored first
StorePitchLimits(c, min, max) == [c EXCEPT !.pitch_min = min, !.pitch_max = max]

\* FpsCamera::set_pitch_limits for min <= max
SetPitchLimits(c, min, max) ==
    [c EXCEPT !.pitch_min = min, !.pitch_max = max, !.pitch = Clamp(c.pitch, min, max)]

\* FpsCamera::move_forward, move_right, move_up, move_local_up, set_position
MoveForward(c, distance) ==
    [c EXCEPT !.position = Add3(c.position, Scale3(Forward(c), distance))]
MoveRight(c, distance) ==
    [c EXCEPT !.position = Add3(c.position, Scale3(Right(c), distance))]
MoveUp(c, distance) ==
    [c EXCEPT !.position = Vec3(c.position.x, c.position.y - distance, c.position.z)]
MoveLocalUp(c, distance) ==
    [c EXCEPT !.position = Add3(c.position, Scale3(Up(c), distance))]
SetPosition(c, position) == [c EXCEPT !.position = position]

---------------------------------------------------------------------------
(* Mesh and Model: loading from an OBJ file *)

\* the default Transform: at the origin, not rotated, unit scale
DefaultTransform ==
    [position |-> Vec3(0, 0, 0), rotation |-> Vec3(0, 0, 0), scale |-> Vec3(One, One, One)]

\* the vertex positions the OBJ files of the model hold
ObjPositions == <<Vec3(-One, -One, 0), Vec3(One, -One, 0), Vec3(0, One, 0)>>

\* what tobj::load_obj returns for a file: a list of models, each with a name,
\* its positions (x, y, z per vertex) and its triangle indices
ObjModels(file_path) ==
    CASE file_path = "ccw.obj" ->
            <<[name |-> "tri", positions |-> ObjPositions, indices |-> <<0, 1, 2>>]>>
      [] file_path = "cw.obj" ->
            <<[name |-> "", positions |-> ObjPositions, indices |-> <<0, 2, 1>>]>>
      [] file_path = "nofaces.obj" ->
            <<[name |-> "points", positions |-> <<>>, indices |-> <<>>]>>
      [] file_path = "odd.obj" ->
            <<[name |-> "odd", positions |-> ObjPositions, indices |-> <<0, 1, 2, 0>>]>>
      [] OTHER -> <<>>

Files == {"ccw.obj", "cw.obj", "nofaces.obj", "odd.obj", "empty.obj"}

\* the faces of a mesh: chunks_exact(3) over the indices
Faces(indices) ==
    [i \in 1 .. Len(indices) \div 3 |->
        [a |-> indices[3 * i - 2], b |-> indices[3 * i - 1], c |-> indices[3 * i]]]

\* Mesh::new
NewMesh(name, vertices, faces) ==
    [name |-> name, vertices |-> vertices, faces |-> faces, transform |-> DefaultTransform]

\* the generated name of an unnamed mesh: mesh_<index>
MeshName(name, index) == IF name = "" THEN <<"mesh_0", "mesh_1">>[index + 1] ELSE name

RECURSIVE LoadMeshes(_, _)
\* the loop of load_all_from_obj from model index on: meshes without
\* positions are skipped, an index count not divisible by 3 is an error
LoadMeshes(ms, index) ==
    IF index >= Len(ms) THEN [error |-> "", meshes |-> <<>>]
    ELSE LET tobj_mesh == ms[index + 1]
             rest == LoadMeshes(ms, index + 1)
         IN  IF tobj_mesh.positions = <<>> THEN rest
             ELSE IF Len(tobj_mesh.indices) % 3 # 0
                  THEN [error |-> "InvalidFaces", meshes |-> <<>>]
             ELSE IF rest.error # "" THEN rest
             ELSE [error |-> "",
                   meshes |-> <<NewMesh(MeshName(tobj_mesh.name, index),
                                        [i \in 1 .. Len(tobj_mesh.positions) |->
                                            [position |-> tobj_mesh.positions[i]]],
                                        Faces(tobj_mesh.indices))>> \o rest.meshes]

\* Mesh::load_all_from_obj
LoadAllFromObj(file_path) ==
    LET ms == ObjModels(file_path)
        loaded == LoadMeshes(ms, 0)
    IN  IF ms = <<>> THEN [error |-> "NoModels", meshes |-> <<>>]
        ELSE IF loaded.error # "" THEN loaded
        ELSE IF loaded.meshes = <<>> THEN [error |-> "NoVertices", meshes |-> <<>>]
        ELSE loaded

\* the models held by Engine.models: name, meshes, world transform; id tells
\* apart models created by different add_model calls
NewModel(name, meshes, id) ==
    [name |-> name, meshes |-> meshes, transform |-> DefaultTransform, id |-> id]

---------------------------------------------------------------------------
(* Engine: model management *)

\* HashMap::insert
Insert(map, key, value) ==
    [k \in DOMAIN map \cup {key} |-> IF k = key THEN value ELSE map[k]]

\* HashMap::remove
Remove(map, key) == [k \in DOMAIN map \ {key} |-> map[k]]

\* Vec::remove(index), 0-based
RemoveAt(seq, index) ==
    [i \in 1 .. Len(seq) - 1 |-> IF i <= index THEN seq[i] ELSE seq[i + 1]]

\* a removal that leaves the other indices as they were
KeepIndices(map, index) == map
\* the index fix-up of remove_model: every index above the removed one drops by one
ShiftIndices(map, index) ==
    [k \in DOMAIN map |-> IF map[k] > index THEN map[k] - 1 ELSE map[k]]

\* Engine::model: the model a name resolves to (the name is in the lookup)
ModelOf(name) == models[model_names[name] + 1]

---------------------------------------------------------------------------
(* Engine::update: from the faces of the models to screen triangles *)

\* colors::FILL after lighting, kept by name
FILL == "fill"

\* Transform::to_matrix: Translation * RotationX * RotationY * RotationZ * Scale
ToMatrix(t) ==
    MatMul(MatMul(MatMul(MatMul(Translation(t.position.x, t.position.y, t.position.z),
                                RotationX(t.rotation.x)),
                         RotationY(t.rotation.y)),
                  RotationZ(t.rotation.z)),
           Scaling(t.scale.x, t.scale.y, t.scale.z))

\* the models the entries of triangles_per_model are built from, one entry
\* per model in list order
Owners(ms) == [m \in 1 .. Len(ms) |-> ms[m].id]

\* the rotation and scale of a transform, without its translation
RotationScale(t) ==
    MatMul(MatMul(MatMul(RotationX(t.rotation.x), RotationY(t.rotation.y)),
                  RotationZ(t.rotation.z)),
           Scaling(t.scale.x, t.scale.y, t.scale.z))

\* the inverse transpose, the identity standing in for the inverse of a
\* singular matrix
InverseTranspose(m) == Transpose(UnwrapOr(Inverse(m), Identity))

\* Transform::normal_matrix
NormalMatrix(t) == InverseTranspose(RotationScale(t))

\* the normal matrix update computes for a mesh of a model: the product is
\* taken left to right
CombinedNormalMatrix(model, mesh) ==
    InverseTranspose(
        MatMul(MatMul(MatMul(MatMul(RotationScale(model.transform),
                                    RotationX(mesh.transform.rotation.x)),
                             RotationY(mesh.transform.rotation.y)),
                      RotationZ(mesh.transform.rotation.z)),
               Scaling(mesh.transform.scale.x, mesh.transform.scale.y,
                       mesh.transform.scale.z)))

RECURSIVE Concat(_)
\* the sequences of a sequence, joined in order
Concat(ss) == IF ss = <<>> THEN <<>> ELSE ss[1] \o Concat(Tail(ss))

\* the faces update visits, in its order: models in list order, the meshes
\* of a model in load order, the faces of a mesh in index order
FaceRefs(ms) ==
    Concat([m \in 1 .. Len(ms) |->
        Concat([k \in 1 .. Len(ms[m].meshes) |->
            [f \in 1 .. Len(ms[m].meshes[k].faces) |->
                [model |-> m, mesh |-> k, face |-> f]]])])

\* the positions of the three vertices of a face, in model space
FacePositions(mesh, f) ==
    <<mesh.vertices[f.a + 1].position, mesh.vertices[f.b + 1].position,
      mesh.vertices[f.c + 1].position>>

\* the culling test that drops the faces whose normal points at the camera
FacesCamera(face_normal, camera_ray) == Dot(face_normal, camera_ray) > 0
\* the culling test of update: the face normal points away from the camera
FacesAway(face_normal, camera_ray) == Dot(face_normal, camera_ray) < 0

\* update's face loop, steps 1 and 2: the world positions of a face
WorldPositions(model, mesh, f) ==
    [i \in 1 .. 3 |->
        MulVec3(MatMul(ToMatrix(model.transform), ToMatrix(mesh.transform)),
                FacePositions(mesh, f)[i])] \o <<>>

\* step 3, backface culling: the face normal against the ray to the camera
Culled(world, cam, culling) ==
    culling /\ FacesAway(Cross(Sub3(world[2], world[1]), Sub3(world[3], world[1])),
                         Sub3(cam.position, world[1]))

\* steps 4 and 6: view space, then clip space
ClipPositions(world, view_matrix, projection_matrix) ==
    [i \in 1 .. 3 |->
        MulVec4(projection_matrix, FromVec3(MulVec3(view_matrix, world[i]), One))] \o <<>>

\* steps 7 to 9 for a face that was not dropped: clipping and the screen
\* triangles pushed; normal_matrix is the matrix computed for the face's mesh
FaceResult(ref, world, dropped, clip, shading, normal_matrix) ==
    [ref |-> ref, world |-> world, dropped |-> dropped,
     normal_matrix |-> normal_matrix,
     triangles |-> IF dropped THEN <<>>
                   ELSE ScreenTriangles(ClipPolygon(clip), FILL, shading)]

FaceOf(ref, world, cam, culling, proj, shading, normal_matrix) ==
    FaceResult(ref, world, Culled(world, cam, culling),
               ClipPositions(world, ViewMatrix(cam), ProjectionMatrix(proj)), shading,
               normal_matrix)

\* the body of update's face loop for one face
ProcessFace(ms, ref, cam, culling, proj, shading) ==
    FaceOf(ref,
           WorldPositions(ms[ref.model], ms[ref.model].meshes[ref.mesh],
                          ms[ref.model].meshes[ref.mesh].faces[ref.face]),
           cam, culling, proj, shading,
           CombinedNormalMatrix(ms[ref.model], ms[ref.model].meshes[ref.mesh]))

---------------------------------------------------------------------------
(* Engine::render: the grid, the fills, and the wireframe and vertex overlays *)

GRID == "grid"
WIREFRAME == "wireframe"
VERTEX == "vertex"

\* WIREFRAME_DEPTH_BIAS (0.0001) is small against every difference between
\* the depths of a scene: the smallest positive value of the model
WIREFRAME_DEPTH_BIAS == 1

RenderModes ==
    {"Wireframe", "WireframeVertices", "FilledWireframe", "FilledWireframeVertices",
     "Filled"}

\* render's table: (draw_filled, draw_wireframe, draw_vertices)
RenderFlags(mode) ==
    CASE mode = "Wireframe" -> [filled |-> FALSE, wireframe |-> TRUE, vertices |-> FALSE]
      [] mode = "WireframeVertices" ->
            [filled |-> FALSE, wireframe |-> TRUE, vertices |-> TRUE]
      [] mode = "FilledWireframe" ->
            [filled |-> TRUE, wireframe |-> TRUE, vertices |-> FALSE]
      [] mode = "FilledWireframeVertices" ->
            [filled |-> TRUE, wireframe |-> TRUE, vertices |-> TRUE]
      [] mode = "Filled" -> [filled |-> TRUE, wireframe |-> FALSE, vertices |-> FALSE]

\* Renderer::draw_grid: set_pixel wherever x or y is a multiple of spacing
DrawGrid(fb, spacing, color) ==
    [fb EXCEPT !.color =
        [i \in PixelIndex |->
            IF (i % FbWidth) % spacing = 0 \/ (i \div FbWidth) % spacing = 0
            THEN color ELSE fb.color[i]]]

\* f32 as i32: the fraction is dropped, toward zero
AsI32(a) == IF a >= 0 THEN a \div One ELSE -((-a) \div One)

\* the calls render makes, as its history keeps them: a fill_triangle call
\* for a triangle of the list, a set_pixel_with_depth call of a wireframe
\* edge, a set_pixel call of a vertex marker; stored is the depth the depth
\* test of a wireframe write found in the buffer
FillCall(i) ==
    [kind |-> "fill", triangle |-> i, x |-> 0, y |-> 0, depth |-> 0, color |-> "",
     stored |-> 0]
WireWrite(x, y, inv_depth, color) ==
    [kind |-> "wireframe", triangle |-> 0, x |-> x, y |-> y, depth |-> inv_depth,
     color |-> color, stored |-> 0]
MarkerWrite(x, y, color) ==
    [kind |-> "vertex", triangle |-> 0, x |-> x, y |-> y, depth |-> 0, color |-> color,
     stored |-> 0]

\* i32, at the width the model gives it: I32Bits bits, two's complement
I32Span == Pow2(I32Bits)
I32Min == -(I32Span \div 2)
I32Max == I32Span \div 2 - 1

\* the result of an operation does not fit: a panic in a build with overflow
\* checks (debug), a wrapped result without them (release)
Overflows(n) == n < I32Min \/ n > I32Max
WrapI32(n) == ((n - I32Min) % I32Span) + I32Min

\* i32::abs of a value that fits: it overflows at the minimum, which it
\* returns unchanged when wrapping
AbsI32(n) == IF n = I32Min THEN I32Min ELSE Abs(n)

\* a - b followed by abs, as dx and dy are computed
AbsDiff(a, b) == AbsI32(WrapI32(a - b))
AbsDiffOverflows(a, b) == Overflows(a - b) \/ WrapI32(a - b) = I32Min

\* the builds of the program: with and without overflow checks
Builds == {"debug", "release"}

\* a loop that has issued this many writes has passed every count a line of
\* in-range endpoints can have
MaxLineWrites == I32Span + 1

\* the decisions of one pass of the loop of draw_line_bresenham, and the
\* values it computes before they are wrapped
StepsX(ln, err) == WrapI32(2 * err) > WrapI32(-ln.dy)
StepsY(ln, err) == WrapI32(2 * err) < ln.dx
ErrAfterX(ln, err) == IF StepsX(ln, err) THEN err - ln.dy ELSE err
ErrAfterY(ln, err) ==
    IF StepsY(ln, err) THEN WrapI32(ErrAfterX(ln, err)) + ln.dx
    ELSE WrapI32(ErrAfterX(ln, err))
NextX(ln, x, err) == IF StepsX(ln, err) THEN x + ln.x_incr_direction ELSE x
NextY(ln, y, err) == IF StepsY(ln, err) THEN y + ln.y_incr_direction ELSE y

\* one of the operations of the pass overflows
PassOverflows(ln, x, y, step, err) ==
    \/ Overflows(step + 1)
    \/ Overflows(2 * err)
    \/ Overflows(-ln.dy)
    \/ Overflows(ErrAfterX(ln, err))
    \/ Overflows(NextX(ln, x, err))
    \/ Overflows(ErrAfterY(ln, err))
    \/ Overflows(NextY(ln, y, err))

\* the write of one pass: depth interpolated by t = step / steps
LineWrite(ln, x, y, step) ==
    WireWrite(x, y,
              ln.inv_w0 + FMul(FDiv(FromInt(step), FromInt(ln.steps)),
                               ln.inv_w1 - ln.inv_w0),
              ln.color)

RECURSIVE LineFrom(_, _, _, _, _, _)
\* the loop of draw_line_bresenham from the pixel (x, y) on, after its write:
\* ln holds what the loop does not change, written the writes so far
LineFrom(ln, x, y, step, err, written) ==
    IF x = ln.x1 /\ y = ln.y1 THEN [writes |-> written, outcome |-> "returned"]
    ELSE IF ln.build = "debug" /\ PassOverflows(ln, x, y, step, err)
    THEN [writes |-> written, outcome |-> "panicked"]
    ELSE IF Len(written) >= MaxLineWrites
    THEN [writes |-> written, outcome |-> "running"]
    ELSE LineFrom(ln, WrapI32(NextX(ln, x, err)), WrapI32(NextY(ln, y, err)),
                  WrapI32(step + 1), WrapI32(ErrAfterY(ln, err)),
                  Append(written,
                         LineWrite(ln, WrapI32(NextX(ln, x, err)),
                                   WrapI32(NextY(ln, y, err)), WrapI32(step + 1))))

\* what the loop does not change
LineOf(build, x0, y0, w0, x1, y1, w1, color) ==
    [build |-> build, x1 |-> x1, y1 |-> y1,
     dx |-> AbsDiff(x1, x0), dy |-> AbsDiff(y1, y0),
     steps |-> Max2(AbsDiff(x1, x0), AbsDiff(y1, y0)),
     inv_w0 |-> FDiv(One, w0) + WIREFRAME_DEPTH_BIAS,
     inv_w1 |-> FDiv(One, w1) + WIREFRAME_DEPTH_BIAS,
     x_incr_direction |-> IF x0 < x1 THEN 1 ELSE -1,
     y_incr_direction |-> IF y0 < y1 THEN 1 ELSE -1,
     color |-> color]

\* the loop entered at (x0, y0) with err = dx - dy
LineLoop(ln, x0, y0) ==
    LineFrom(ln, x0, y0, 0, WrapI32(ln.dx - ln.dy), <<LineWrite(ln, x0, y0, 0)>>)

\* Renderer::draw_line_bresenham in a build: the depth-tested writes it
\* issues, in order, and how it ends
DrawLineIn(build, x0, y0, w0, x1, y1, w1, color) ==
    IF build = "debug"
       /\ (AbsDiffOverflows(x1, x0) \/ AbsDiffOverflows(y1, y0))
    THEN [writes |-> <<>>, outcome |-> "panicked"]
    ELSE IF Max2(AbsDiff(x1, x0), AbsDiff(y1, y0)) = 0
    THEN [writes |-> <<WireWrite(x0, y0, FDiv(One, w0) + WIREFRAME_DEPTH_BIAS, color)>>,
          outcome |-> "returned"]
    ELSE IF build = "debug"
            /\ Overflows(AbsDiff(x1, x0) - AbsDiff(y1, y0))
    THEN [writes |-> <<>>, outcome |-> "panicked"]
    ELSE LineLoop(LineOf(build, x0, y0, w0, x1, y1, w1, color), x0, y0)

\* Renderer::draw_line_bresenham on the edge of a screen triangle, where no
\* operation overflows and the builds agree: the writes it issues, in order
DrawLineBresenham(x0, y0, w0, x1, y1, w1, color) ==
    DrawLineIn("release", x0, y0, w0, x1, y1, w1, color).writes

\* one edge of draw_triangle_wireframe
DrawEdge(p, q, color) ==
    DrawLineBresenham(AsI32(p.x), AsI32(p.y), p.z, AsI32(q.x), AsI32(q.y), q.z, color)

\* Renderer::draw_triangle_wireframe: the edges p0-p1, p1-p2, p2-p0
DrawTriangleWireframe(tri, color) ==
    DrawEdge(tri.points[1], tri.points[2], color)
      \o DrawEdge(tri.points[2], tri.points[3], color)
      \o DrawEdge(tri.points[3], tri.points[1], color)

\* Renderer::draw_rect: set_pixel row by row
DrawRect(x, y, width, height, color) ==
    [k \in 1 .. width * height |->
        MarkerWrite(x + ((k - 1) % width), y + ((k - 1) \div width), color)] \o <<>>

\* the vertex markers of one triangle
DrawVertices(tri, color) ==
    Concat([k \in 1 .. 3 |->
               DrawRect(AsI32(tri.points[k].x), AsI32(tri.points[k].y), 4, 4, color)])

\* the body of render's overlay loop for one triangle
DrawOverlay(tri, flags) ==
    (IF flags.wireframe THEN DrawTriangleWireframe(tri, WIREFRAME) ELSE <<>>)
      \o (IF flags.vertices THEN DrawVertices(tri, VERTEX) ELSE <<>>)

\* render's two loops
FillLoop(tris, flags) ==
    IF flags.filled THEN [i \in 1 .. Len(tris) |-> FillCall(i)] \o <<>> ELSE <<>>
OverlayLoop(tris, flags) ==
    Concat([i \in 1 .. Len(tris) |-> DrawOverlay(tris[i], flags)])

\* a render that draws the overlays before the fills
OverlaysFirst(tris, flags) == OverlayLoop(tris, flags) \o FillLoop(tris, flags)
\* the calls of render after the clear and the grid: every fill, then the
\* overlays triangle by triangle
RenderCalls(tris, flags) == FillLoop(tris, flags) \o OverlayLoop(tris, flags)

\* the effect of one call on the framebuffer
ApplyCall(fb, call, tris, type) ==
    CASE call.kind = "fill" -> FillTriangle(fb, tris[call.triangle], type)
      [] call.kind = "wireframe" ->
            SetPixelWithDepth(fb, call.x, call.y, call.depth, call.color)
      [] call.kind = "vertex" -> SetPixel(fb, call.x, call.y, call.color)

\* the call as the history keeps it
Seen(fb, call) ==
    IF call.kind = "wireframe" /\ InRange(call.x, call.y)
    THEN [call EXCEPT !.stored = fb.depth[Idx(call.x, call.y)]]
    ELSE call

RECURSIVE Execute(_, _, _, _)
\* the calls made in order on the frame st.fb, st.log recording those made
Execute(st, todo, tris, type) ==
    IF Len(st.log) = Len(todo) THEN st
    ELSE Execute([fb |-> ApplyCall(st.fb, todo[Len(st.log) + 1], tris, type),
                  log |-> Append(st.log, Seen(st.fb, todo[Len(st.log) + 1]))],
                 todo, tris, type)

\* a render that draws over the frame on screen instead of clearing it
RenderOver(tris, type, mode, grid) ==
    Execute([fb |-> IF grid
                    THEN DrawGrid([color |-> color_buffer, depth |-> depth_buffer], 50, GRID)
                    ELSE [color |-> color_buffer, depth |-> depth_buffer],
             log |-> <<>>],
            RenderCalls(tris, RenderFlags(mode)), tris, type)

\* Engine::render: the frame it leaves and the calls it made
RenderFrame(tris, type, mode, grid) ==
    Execute([fb |-> IF grid THEN DrawGrid(Cleared, 50, GRID) ELSE Cleared, log |-> <<>>],
            RenderCalls(tris, RenderFlags(mode)), tris, type)

---------------------------------------------------------------------------
(* Texture: nearest-neighbor sampling with repeat wrap and V flip *)

NoTexture == [data |-> <<>>, width |-> 0, height |-> 0]

\* a decoded image of the given size, rows top to bottom; the texel at
\* index i of the data has the color i
Image(width, height) ==
    [data |-> [i \in 1 .. width * height |-> i - 1] \o <<>>,
     width |-> width, height |-> height]

\* f32 as u32: the fraction is dropped; a negative value gives 0
AsU32(a) == IF a >= 0 THEN a \div One ELSE 0

\* the pixel coordinate of a wrapped texture coordinate
TexelCoord(wrapped, size) == Min2(AsU32(FMul(wrapped, FromInt(size))), size - 1)

\* Texture::sample(u, v)
Sample(tex, u, v) ==
    tex.data[TexelCoord(RemEuclid(One - v, One), tex.height) * tex.width
               + TexelCoord(RemEuclid(u, One), tex.width) + 1]

---------------------------------------------------------------------------
(* Window: event polling *)

\* InputState::default: no key held, no mouse movement
DefaultInputState ==
    [forward |-> FALSE, back |-> FALSE, left |-> FALSE, right |-> FALSE,
     up |-> FALSE, down |-> FALSE, roll_left |-> FALSE, roll_right |-> FALSE,
     mouse_delta |-> <<0, 0>>]

\* Window::update_key_state
UpdateKeyState(input_state, keycode, pressed) ==
    CASE keycode = "W" -> [input_state EXCEPT !.forward = pressed]
      [] keycode = "S" -> [input_state EXCEPT !.back = pressed]
      [] keycode = "A" -> [input_state EXCEPT !.left = pressed]
      [] keycode = "D" -> [input_state EXCEPT !.right = pressed]
      [] keycode = "Space" -> [input_state EXCEPT !.up = pressed]
      [] keycode \in {"LShift", "LCtrl"} -> [input_state EXCEPT !.down = pressed]
      [] keycode = "Q" -> [input_state EXCEPT !.roll_left = pressed]
      [] keycode = "E" -> [input_state EXCEPT !.roll_right = pressed]
      [] OTHER -> input_state

\* the keycodes keycode_to_discrete_key maps to a Key
DiscreteKeys == {"Num1", "Num2", "Num3", "Num4", "Num5", "C", "G", "R", "F", "T", "Escape"}

\* WindowEvent values
WindowEvent(event, w, h, key) == [event |-> event, w |-> w, h |-> h, key |-> key]
NoEvent == WindowEvent("None", 0, 0, "")

\* SDL events, each with the fields of every kind
SdlEvent(type, keycode, repeat, w, h, mouse_btn) ==
    [type |-> type, keycode |-> keycode, repeat |-> repeat, w |-> w, h |-> h,
     mouse_btn |-> mouse_btn]

\* a result that the later events of the call replace
ResultReplaced(result, candidate) == candidate
\* the result after an event that stands for a discrete event: only the
\* first one is kept
ResultKept(result, candidate) == IF result = NoEvent THEN candidate ELSE result

\* the result of poll_events after one more event
ResultAfter(result, e) ==
    CASE e.type = "Quit" -> WindowEvent("Quit", 0, 0, "")
      [] e.type = "Resized" -> ResultKept(result, WindowEvent("Resize", e.w, e.h, ""))
      [] e.type = "KeyDown" /\ ~e.repeat /\ e.keycode \in DiscreteKeys ->
            ResultKept(result, WindowEvent("KeyPress", 0, 0, e.keycode))
      [] e.type = "MouseButtonDown" /\ e.mouse_btn = "Right" ->
            ResultKept(result, WindowEvent("RightMouseDown", 0, 0, ""))
      [] OTHER -> result

\* the input state of poll_events after one more event
InputAfter(input_state, e, mouse_captured) ==
    CASE e.type = "KeyDown" /\ ~e.repeat -> UpdateKeyState(input_state, e.keycode, TRUE)
      [] e.type = "KeyUp" -> UpdateKeyState(input_state, e.keycode, FALSE)
      [] e.type = "MouseMotion" /\ mouse_captured ->
            [input_state EXCEPT !.mouse_delta = <<@[1] + e.w, @[2] + e.h>>]
      [] OTHER -> input_state

RECURSIVE PollLoop(_, _, _)
\* the loop of poll_events over the events collected from the pump
PollLoop(st, events, mouse_captured) ==
    IF events = <<>> THEN st
    ELSE PollLoop([input_state |-> InputAfter(st.input_state, events[1], mouse_captured),
                   result |-> ResultAfter(st.result, events[1])],
                  Tail(events), mouse_captured)

\* Window::poll_events: the per-frame state is reset, then the events are
\* handled in arrival order
PollEventsOf(input_state, events, mouse_captured) ==
    PollLoop([input_state |-> [input_state EXCEPT !.mouse_delta = <<0, 0>>],
              result |-> NoEvent],
             events, mouse_captured)

\* Window::new: no key is held, nothing is queued, the mouse is free
InitWindow ==
    /\ keyboard = {}
    /\ event_pump = <<>>
    /\ window = [input_state |-> DefaultInputState, mouse_captured |-> FALSE]
    /\ polled = <<>>

\* Engine::new: global_texture is None, nothing was sampled
InitTextures ==
    /\ texture = NoTexture
    /\ texel = <<>>

\* nothing was asked of a transform yet
InitUnits ==
    /\ InitTextures
    /\ normal = <<>>
    /\ frames = 0
    /\ owners = <<>>
    /\ line = <<>>
    /\ InitWindow

---------------------------------------------------------------------------
(* Engine::new: the state of the engine outside its framebuffer *)

NoNames == [n \in {} |-> 0]

InitEngine ==
    /\ projection = DefaultProjection
    /\ clip_position = <<>>
    /\ models = <<>>
    /\ model_names = NoNames
    /\ loads = 0
    /\ camera = NewCamera(Vec3(0, 0, FromInt(-5)))
    /\ backface_culling = TRUE
    /\ culled = <<>>
    /\ render_mode = "Filled"
    /\ draw_grid = FALSE
    /\ calls = <<>>
    /\ InitUnits

---------------------------------------------------------------------------
(* Specification SpecFB: direct depth-tested writes to the framebuffer *)

\* the coordinates the direct writes use: two pixels and one out of range
WriteXs == {0, 1, FbWidth}
WriteYs == {0}
Depths == 1 .. MaxDepth

InitFB ==
    /\ color_buffer = ClearedColor
    /\ depth_buffer = ClearedDepth
    /\ writes = <<>>
    /\ active = "Scanline"
    /\ triangles = <<>>
    /\ filled = <<>>
    /\ face = <<>>
    /\ polygon = <<>>
    /\ pc = "frame"
    /\ InitEngine

\* Engine::render's first two statements: clear(BACKGROUND); clear_depth()
ClearFrame ==
    /\ pc = "frame"
    /\ writes # <<>>
    /\ color_buffer' = ClearedColor
    /\ depth_buffer' = ClearedDepth
    /\ writes' = <<>>
    /\ UNCHANGED <<active, triangles, filled, face, polygon, pc>>
    /\ UNCHANGED engineVars

\* one call of set_pixel_with_depth(x, y, depth, color)
WritePixelWithDepth ==
    /\ pc = "frame"
    /\ Len(writes) < MaxWrites
    /\ \E x \in WriteXs, y \in WriteYs, d \in Depths, c \in Colors :
          LET fb == SetPixelWithDepth(Fb, x, y, d, c)
          IN  /\ color_buffer' = fb.color
              /\ depth_buffer' = fb.depth
              /\ writes' = Append(writes, [x |-> x, y |-> y, depth |-> d, color |-> c])
    /\ UNCHANGED <<active, triangles, filled, face, polygon, pc>>
    /\ UNCHANGED engineVars

NextFB == ClearFrame \/ WritePixelWithDepth

SpecFB == InitFB /\ [][NextFB]_vars

---------------------------------------------------------------------------
(* Specification SpecPixel: depth-tested and plain writes to the framebuffer *)

\* one call of set_pixel(x, y, color)
WritePixel ==
    /\ pc = "frame"
    /\ Len(writes) < MaxWrites
    /\ \E x \in WriteXs, y \in WriteYs, c \in Colors :
          LET fb == SetPixel(Fb, x, y, c)
          IN  /\ color_buffer' = fb.color
              /\ depth_buffer' = fb.depth
              /\ writes' = Append(writes, [x |-> x, y |-> y, color |-> c])
    /\ UNCHANGED <<active, triangles, filled, face, polygon, pc>>
    /\ UNCHANGED engineVars

NextPixel == ClearFrame \/ WritePixelWithDepth \/ WritePixel

SpecPixel == InitFB /\ [][NextPixel]_vars

---------------------------------------------------------------------------
(* Specification SpecRaster: the engine draws a scene of two triangles *)

NearW == 10          \* clip-space w of the nearer triangle's vertices
FarW == 100          \* clip-space w of the farther triangle's vertices

\* screen positions the scenes draw their vertices from: the corners of the
\* framebuffer and one point on its bottom edge
Corners == {<<0, 0>>, <<FbWidth, 0>>, <<0, FbHeight>>, <<FbWidth, FbHeight>>}
ScenePoints == Corners \cup {<<1, FbHeight>>}

ScreenPt(q, w) == Pt(FromInt(q[1]), FromInt(q[2]), FromInt(w))

ShadingModes == {"Flat", "Gouraud"}

\* a rasterizer triangle of one color on the screen positions q0, q1, q2
SceneTri(q0, q1, q2, w, color, shading) ==
    Tri(ScreenPt(q0, w), ScreenPt(q1, w), ScreenPt(q2, w),
        color, <<color, color, color>>, shading)

\* the scenes: a red and a blue triangle through the positions a and b, each
\* traversing a-b in either direction, one of them near and the other far
Scenes ==
    {<<SceneTri(IF f1 THEN a ELSE b, IF f1 THEN b ELSE a, c, ws[1], "red", sh),
       SceneTri(IF f2 THEN a ELSE b, IF f2 THEN b ELSE a, d, ws[2], "blue", sh)>> :
        <<a, b, c, d, f1, f2, ws, sh>> \in
            {t \in Corners \X Corners \X ScenePoints \X ScenePoints \X BOOLEAN \X BOOLEAN
                     \X {<<NearW, FarW>>, <<FarW, NearW>>} \X ShadingModes : t[1] # t[2]}}

\* Engine::new: buffers cleared, no triangles yet, the default rasterizer.
\* The engine is then put in RenderMode::Filled with draw_grid off, the
\* configuration in which a frame holds the fills and nothing else.
InitRaster ==
    /\ color_buffer = ClearedColor
    /\ depth_buffer = ClearedDepth
    /\ writes = <<>>
    /\ active = "Scanline"
    /\ triangles = <<>>
    /\ filled = <<>>
    /\ face = <<>>
    /\ polygon = <<>>
    /\ pc = "update"
    /\ InitEngine

\* Engine::set_rasterizer, called between frames; the frame on screen was
\* drawn by the rasterizer selected before
SetRasterizer ==
    /\ pc \in {"update", "presented"}
    /\ \E type \in RasterizerTypes : type # active /\ active' = type
    /\ pc' = "update"
    /\ UNCHANGED <<color_buffer, depth_buffer, writes, triangles, filled, face, polygon>>
    /\ UNCHANGED engineVars

\* Engine::update with a static scene and camera: the first call builds the
\* triangle list, every later call rebuilds the same list
Update ==
    /\ pc \in {"update", "presented"}
    /\ IF triangles = <<>> THEN triangles' \in Scenes ELSE triangles' = triangles
    /\ pc' = "render"
    /\ UNCHANGED <<color_buffer, depth_buffer, writes, active, filled, face, polygon>>
    /\ frames' = 0
    /\ owners' = Owners(models)
    /\ UNCHANGED <<engineRest, sideVars>>

MaxFrames == 2       \* render calls in a row

\* Engine::render: clear both buffers, draw the grid, fill every triangle in
\* list order through the dispatcher, then draw the overlays; in
\* RenderMode::Filled with the grid off the frame holds the fills alone
Render ==
    /\ pc \in {"render", "presented"}
    /\ frames < MaxFrames
    /\ \E frame \in {RenderFrame(triangles, active, render_mode, draw_grid)} :
          /\ calls' = frame.log
          /\ color_buffer' = frame.fb.color
          /\ depth_buffer' = frame.fb.depth
    /\ filled' = IF RenderFlags(render_mode).filled
                 THEN [i \in 1 .. Len(triangles) |-> FillPixels(triangles[i], active)]
                 ELSE <<>>
    /\ pc' = "presented"
    /\ frames' = frames + 1
    /\ UNCHANGED <<writes, active, triangles, face, polygon, projection, clip_position,
                   models, model_names, loads, camera, backface_culling, culled,
                   render_mode, draw_grid, sideVars, owners>>

NextRaster == SetRasterizer \/ Update \/ Render

SpecRaster == InitRaster /\ [][NextRaster]_vars

\* the frame on screen was rendered from the current triangle list by the
\* current rasterizer
Rendered == pc = "presented"

---------------------------------------------------------------------------
(* Specification SpecPipeline: one face goes through clipping, the viewport *)
(* transform and the fill                                                   *)

\* a clip-space position given in halves
ClipPt(x, y, z, w) == Vec4(x * Half, y * Half, z * Half, w * Half)

\* positions inside the clip cube at w = 1: they map to the corners of the
\* framebuffer and to one point of its bottom edge
InsidePoints ==
    {ClipPt(-2, 2, 0, 2), ClipPt(-2, -2, 0, 2), ClipPt(2, 2, 0, 2), ClipPt(2, -2, 0, 2),
     ClipPt(-1, -2, 0, 2), ClipPt(0, 0, 0, 2), ClipPt(0, 0, 0, 6)}

\* positions outside the cube: beyond the left and bottom, right, top and far
\* planes, and behind the eye (w < 0)
OutsidePoints ==
    {ClipPt(-6, -6, 0, 2), ClipPt(6, 0, 0, 2), ClipPt(0, 6, 0, 2), ClipPt(0, 0, 4, 2),
     ClipPt(0, 0, 0, -2)}

\* the triangle that straddles the near plane: (-2,-2,-2,1), (2,-2,-2,1),
\* (0,2,2,1)
NearPlaneTriangle == <<ClipPt(-4, -4, -4, 2), ClipPt(4, -4, -4, 2), ClipPt(0, 4, 4, 2)>>

ClipPoints == InsidePoints \cup OutsidePoints
                \cup {NearPlaneTriangle[i] : i \in 1 .. Len(NearPlaneTriangle)}

\* Engine::update for a static scene of one face: the first call receives the
\* projected face, every later call the same one; the face is clipped, fanned,
\* divided by w, mapped to the screen and pushed
UpdateClipped ==
    /\ pc \in {"update", "presented"}
    /\ IF face = <<>>
       THEN \E p0, p1, p2 \in ClipPoints : face' = <<p0, p1, p2>>
       ELSE face' = face
    /\ polygon' = ClipPolygon(face')
    /\ \E shading \in ShadingModes :
          triangles' = ScreenTriangles(polygon', "red", shading)
    /\ pc' = "render"
    /\ UNCHANGED <<color_buffer, depth_buffer, writes, active, filled>>
    /\ frames' = 0
    /\ owners' = Owners(models)
    /\ UNCHANGED <<engineRest, sideVars>>

NextPipeline == SetRasterizer \/ UpdateClipped \/ Render

SpecPipeline == InitRaster /\ [][NextPipeline]_vars

---------------------------------------------------------------------------
(* Specification SpecProjection: a projection projects view-space points *)

MaxFar == 4          \* far planes 2 .. MaxFar, besides the engine's 100.0

FovDegrees == {45, 90}
AspectRatios == {One, FDiv(FromInt(FbWidth + 1), FromInt(FbHeight))}
Nears == {RoundDiv(One, 10), Half, One}
Fars == {FromInt(k) : k \in 2 .. MaxFar} \cup {FromInt(100)}

\* the view-space points handed to the projection: on the view axis at the
\* near plane, at the far plane, between the two and behind the eye, and one
\* point off the axis
ViewPoints(p) ==
    {Vec3(0, 0, p.z_near), Vec3(0, 0, p.z_far), Vec3(0, 0, (p.z_near + p.z_far) \div 2),
     Vec3(0, 0, p.z_near + EPSILON), Vec3(0, 0, -p.z_far), Vec3(Half, -Half, p.z_far)}

\* Projection::new with any field of view, aspect ratio and 0 < near < far
InitProjection ==
    /\ color_buffer = ClearedColor
    /\ depth_buffer = ClearedDepth
    /\ writes = <<>>
    /\ active = "Scanline"
    /\ triangles = <<>>
    /\ filled = <<>>
    /\ face = <<>>
    /\ polygon = <<>>
    /\ pc = "projection"
    /\ \E f \in FovDegrees, a \in AspectRatios, n \in Nears, fa \in Fars :
          projection = NewProjection(f, a, n, fa)
    /\ clip_position = <<>>
    /\ models = <<>>
    /\ model_names = NoNames
    /\ loads = 0
    /\ camera = NewCamera(Vec3(0, 0, FromInt(-5)))
    /\ backface_culling = TRUE
    /\ culled = <<>>
    /\ render_mode = "Filled"
    /\ draw_grid = FALSE
    /\ calls = <<>>
    /\ InitUnits

\* Projection::set_aspect_ratio
SetAspectRatio ==
    /\ pc = "projection"
    /\ \E a \in AspectRatios :
          /\ a # projection.aspect_ratio
          /\ projection' = [projection EXCEPT !.aspect_ratio = a]
    /\ UNCHANGED <<color_buffer, depth_buffer, writes, active, triangles, filled, face,
                   polygon, pc, clip_position, models, model_names, loads, camera,
                   backface_culling, culled, render_mode, draw_grid, calls,
                   unitVars>>

\* the projection step of Engine::update on one view-space position:
\* projection matrix * Vec4::from_vec3(position, 1.0)
ProjectPoint ==
    /\ pc = "projection"
    /\ \E v \in ViewPoints(projection) :
          clip_position' =
              [view |-> v, clip |-> MulVec4(ProjectionMatrix(projection), FromVec3(v, One))]
    /\ UNCHANGED <<color_buffer, depth_buffer, writes, active, triangles, filled, face,
                   polygon, pc, projection, models, model_names, loads, camera,
                   backface_culling, culled, render_mode, draw_grid, calls,
                   unitVars>>

NextProjection == SetAspectRatio \/ ProjectPoint

SpecProjection == InitProjection /\ [][NextProjection]_vars

---------------------------------------------------------------------------
(* Specification SpecModels: models are added to and removed from the scene *)

MaxLoads == 3        \* models created over the life of the engine

Names == {"a", "b"}

\* the engine of Engine::new, with everything else at rest
InitModels ==
    /\ color_buffer = ClearedColor
    /\ depth_buffer = ClearedDepth
    /\ writes = <<>>
    /\ active = "Scanline"
    /\ triangles = <<>>
    /\ filled = <<>>
    /\ face = <<>>
    /\ polygon = <<>>
    /\ pc = "update"
    /\ InitEngine

\* Engine::add_model(name, file_path): a load error changes nothing
AddModel ==
    /\ pc \in {"update", "presented"}
    /\ loads < MaxLoads
    /\ \E name \in Names, file_path \in Files :
          LET loaded == LoadAllFromObj(file_path)
              index == Len(models)
          IN  IF loaded.error # ""
              THEN UNCHANGED <<models, model_names, loads>>
              ELSE /\ model_names' = Insert(model_names, name, index)
                   /\ models' = Append(models, NewModel(name, loaded.meshes, loads + 1))
                   /\ loads' = loads + 1
    /\ UNCHANGED <<color_buffer, depth_buffer, writes, active, triangles, filled, face,
                   polygon, pc, projection, clip_position, camera, backface_culling,
                   culled, render_mode, draw_grid, calls,
                   unitVars>>

\* Engine::remove_model(name): an unknown name changes nothing
RemoveModel ==
    /\ pc \in {"update", "presented"}
    /\ \E name \in Names :
          IF name \in DOMAIN model_names
          THEN LET index == model_names[name]
               IN  /\ model_names' = ShiftIndices(Remove(model_names, name), index)
                   /\ models' = RemoveAt(models, index)
          ELSE UNCHANGED <<models, model_names>>
    /\ UNCHANGED <<color_buffer, depth_buffer, writes, active, triangles, filled, face,
                   polygon, pc, projection, clip_position, loads, camera,
                   backface_culling, culled, render_mode, draw_grid, calls,
                   unitVars>>

\* Engine::clear_models
ClearModels ==
    /\ pc \in {"update", "presented"}
    /\ models' = <<>>
    /\ model_names' = NoNames
    /\ UNCHANGED <<color_buffer, depth_buffer, writes, active, triangles, filled, face,
                   polygon, pc, projection, clip_position, loads, camera,
                   backface_culling, culled, render_mode, draw_grid, calls,
                   unitVars>>

NextModels == AddModel \/ RemoveModel \/ ClearModels

SpecModels == InitModels /\ [][NextModels]_vars

---------------------------------------------------------------------------
(* Specification SpecCamera: the camera of the engine is turned and moved *)

\* the positions the camera is followed at: the origin and one step along
\* each axis
CameraGrid == {Vec3(0, 0, 0), Vec3(One, 0, 0), Vec3(0, One, 0), Vec3(0, 0, One)}

\* angles the camera is turned by: more than a full turn back, a quarter
\* turn back, a half turn forth
AngleDeltas == {-(TAU + HalfPi), -HalfPi, PI}

\* pitch limits handed to set_pitch_limits, in either order
PitchLimits == {-ToRadians(89), QuarterPi, ToRadians(89)}

\* points the camera is made to look at: above, behind to the left, behind
LookTargets == {Vec3(0, One, 0), Vec3(-One, 0, -One), Vec3(0, 0, -2 * One)}

MoveDistances == {-One, One}

\* everything but the camera
restVars ==
    <<color_buffer, depth_buffer, writes, active, triangles, filled, face, polygon,
      projection, clip_position, models, model_names, loads, backface_culling, culled,
      render_mode, draw_grid, calls,
      unitVars>>

CameraRotate ==
    /\ pc \in {"update", "presented"}
    /\ \E yaw_delta \in AngleDeltas, pitch_delta \in AngleDeltas :
          camera' = Rotate(camera, yaw_delta, pitch_delta)
    /\ UNCHANGED <<pc, restVars>>

CameraRotateYaw ==
    /\ pc \in {"update", "presented"}
    /\ \E delta \in AngleDeltas : camera' = RotateYaw(camera, delta)
    /\ UNCHANGED <<pc, restVars>>

CameraRotatePitch ==
    /\ pc \in {"update", "presented"}
    /\ \E delta \in AngleDeltas : camera' = RotatePitch(camera, delta)
    /\ UNCHANGED <<pc, restVars>>

CameraRotateRoll ==
    /\ pc \in {"update", "presented"}
    /\ \E delta \in AngleDeltas : camera' = RotateRoll(camera, delta)
    /\ UNCHANGED <<pc, restVars>>

CameraLookAt ==
    /\ pc \in {"update", "presented"}
    /\ \E target \in LookTargets : camera' = LookAt(camera, target)
    /\ UNCHANGED <<pc, restVars>>

\* FpsCamera::set_pitch_limits: with min > max the limits are stored and the
\* clamp that follows panics
CameraSetPitchLimits ==
    /\ pc \in {"update", "presented"}
    /\ \E min \in PitchLimits, max \in PitchLimits :
          IF min > max
          THEN /\ camera' = StorePitchLimits(camera, min, max)
               /\ pc' = "panicked"
          ELSE /\ camera' = SetPitchLimits(camera, min, max)
               /\ pc' = pc
    /\ UNCHANGED restVars

\* the moves, followed while the camera stays on the grid
CameraMoveForward ==
    /\ pc \in {"update", "presented"}
    /\ \E distance \in MoveDistances :
          /\ MoveForward(camera, distance).position \in CameraGrid
          /\ camera' = MoveForward(camera, distance)
    /\ UNCHANGED <<pc, restVars>>

CameraMoveRight ==
    /\ pc \in {"update", "presented"}
    /\ \E distance \in MoveDistances :
          /\ MoveRight(camera, distance).position \in CameraGrid
          /\ camera' = MoveRight(camera, distance)
    /\ UNCHANGED <<pc, restVars>>

CameraMoveUp ==
    /\ pc \in {"update", "presented"}
    /\ \E distance \in MoveDistances :
          /\ MoveUp(camera, distance).position \in CameraGrid
          /\ camera' = MoveUp(camera, distance)
    /\ UNCHANGED <<pc, restVars>>

CameraMoveLocalUp ==
    /\ pc \in {"update", "presented"}
    /\ \E distance \in MoveDistances :
          /\ MoveLocalUp(camera, distance).position \in CameraGrid
          /\ camera' = MoveLocalUp(camera, distance)
    /\ UNCHANGED <<pc, restVars>>

CameraSetPosition ==
    /\ pc \in {"update", "presented"}
    /\ \E position \in CameraGrid : camera' = SetPosition(camera, position)
    /\ UNCHANGED <<pc, restVars>>

NextCamera ==
    \/ CameraRotate
    \/ CameraRotateYaw
    \/ CameraRotatePitch
    \/ CameraRotateRoll
    \/ CameraLookAt
    \/ CameraSetPitchLimits
    \/ CameraMoveForward
    \/ CameraMoveRight
    \/ CameraMoveUp
    \/ CameraMoveLocalUp
    \/ CameraSetPosition

SpecCamera == InitModels /\ [][NextCamera]_vars

---------------------------------------------------------------------------
(* Specification SpecScene: models are added and turned, the camera is placed, *)
(* culling is switched, and the scene is updated and rendered                  *)

\* the angles a model is turned to about the Y axis: not at all, half a turn
ModelTurns == {0, PI}

MaxSceneLoads == 2   \* models added to the scene

\* the files the scene is loaded from: one triangle of either winding
SceneFiles == {"ccw.obj", "cw.obj"}

\* where the camera is placed: behind the scene (as Engine::new leaves it),
\* in front of it, and in front of it to the right
SceneCameras == {Vec3(0, 0, -FromInt(5)), Vec3(0, 0, FromInt(5)), Vec3(One, 0, One)}

\* what a change of the scene leaves alone; culled, the record of the last
\* update, is emptied by every change of the scene it was made from
sceneRest == <<color_buffer, depth_buffer, writes, active, triangles, filled, face,
               polygon, pc, projection, clip_position, render_mode, draw_grid, calls,
               unitVars>>

\* Engine::add_model(name, file_path) with a file that loads
AddSceneModel ==
    /\ pc \in {"update", "presented"}
    /\ loads < MaxSceneLoads
    /\ \E name \in Names, file_path \in SceneFiles :
          LET loaded == LoadAllFromObj(file_path)
              index == Len(models)
          IN  /\ loaded.error = ""
              /\ model_names' = Insert(model_names, name, index)
              /\ models' = Append(models, NewModel(name, loaded.meshes, loads + 1))
              /\ loads' = loads + 1
    /\ culled' = <<>>
    /\ UNCHANGED <<sceneRest, camera, backface_culling>>

\* Transform::set_rotation on the transform of a model reached by name
SetModelRotation ==
    /\ pc \in {"update", "presented"}
    /\ \E name \in DOMAIN model_names, angle \in ModelTurns :
          /\ ModelOf(name).transform.rotation # Vec3(0, angle, 0)
          /\ models' = [models EXCEPT
                            ![model_names[name] + 1].transform.rotation = Vec3(0, angle, 0)]
    /\ culled' = <<>>
    /\ UNCHANGED <<sceneRest, model_names, loads, camera, backface_culling>>

\* Camera::set_position through Engine::camera_mut
PlaceCamera ==
    /\ pc \in {"update", "presented"}
    /\ \E position \in SceneCameras :
          /\ position # camera.position
          /\ camera' = SetPosition(camera, position)
    /\ culled' = <<>>
    /\ UNCHANGED <<sceneRest, models, model_names, loads, backface_culling>>

\* an assignment to the public field backface_culling
SetBackfaceCulling ==
    /\ pc \in {"update", "presented"}
    /\ backface_culling' = ~backface_culling
    /\ culled' = <<>>
    /\ UNCHANGED <<sceneRest, models, model_names, loads, camera>>

\* Engine::update: every face of every model is processed; culled records
\* for each face whether the culling step dropped it
UpdateScene ==
    /\ pc \in {"update", "presented"}
    /\ \E shading \in ShadingModes :
          /\ culled' = [i \in 1 .. Len(FaceRefs(models)) |->
                            ProcessFace(models, FaceRefs(models)[i], camera,
                                        backface_culling, projection, shading)]
          /\ triangles' = Concat([i \in 1 .. Len(culled') |-> culled'[i].triangles])
    /\ pc' = "render"
    /\ UNCHANGED <<color_buffer, depth_buffer, writes, active, filled, face, polygon,
                   projection, clip_position, models, model_names, loads, camera,
                   backface_culling, render_mode, draw_grid, calls,
                   sideVars>>
    /\ frames' = 0
    /\ owners' = Owners(models)

NextScene ==
    \/ AddSceneModel
    \/ SetModelRotation
    \/ PlaceCamera
    \/ SetBackfaceCulling
    \/ UpdateScene
    \/ Render

SpecScene == InitModels /\ [][NextScene]_vars

\* Engine::remove_model(name) on a scene that was loaded; an unknown name
\* changes nothing
RemoveSceneModel ==
    /\ pc \in {"update", "presented"}
    /\ \E name \in Names :
          IF name \in DOMAIN model_names
          THEN LET index == model_names[name]
               IN  /\ model_names' = ShiftIndices(Remove(model_names, name), index)
                   /\ models' = RemoveAt(models, index)
          ELSE UNCHANGED <<models, model_names>>
    /\ culled' = <<>>
    /\ UNCHANGED <<sceneRest, loads, camera, backface_culling>>

\* Engine::clear_models on a scene that was loaded
ClearScene ==
    /\ pc \in {"update", "presented"}
    /\ models' = <<>>
    /\ model_names' = NoNames
    /\ culled' = <<>>
    /\ UNCHANGED <<sceneRest, loads, camera, backface_culling>>

\* the application changes the list of models, calls update and calls render
\* in any order the public interface allows
NextRoster ==
    \/ AddSceneModel
    \/ RemoveSceneModel
    \/ ClearScene
    \/ UpdateScene
    \/ Render

SpecRoster == InitModels /\ [][NextRoster]_vars

---------------------------------------------------------------------------
(* Specification SpecTransform: one model is added, the transforms of the  *)
(* model and of its mesh are turned and scaled, the normal matrix of a     *)
(* transform is asked for, and the scene is updated and rendered           *)

\* the rotations set: none, and a turn about all three axes
Tilts == {Vec3(0, 0, 0), Vec3(PI \div 4, PI \div 3, PI \div 6)}

\* the scales set: unit, one, two and three components zero, and one with
\* no zero component that is not uniform
Scales == {Vec3(One, One, One), Vec3(0, One, One), Vec3(One, 0, 2 * One),
           Vec3(2 * One, 2 * One, 0), Vec3(0, 0, 0), Vec3(2 * One, One, One)}

\* what a change of a transform leaves alone; culled and normal, made from
\* the transforms, are emptied by every change of them
transformRest == <<color_buffer, depth_buffer, writes, active, triangles, filled, face,
                   polygon, pc, projection, clip_position, render_mode, draw_grid,
                   calls, textureVars, frames, owners, laterVars, model_names, loads, camera,
                   backface_culling>>

\* Engine::add_model(name, file_path) on the engine that holds no model
AddFirstModel ==
    /\ pc \in {"update", "presented"}
    /\ models = <<>>
    /\ \E name \in Names, file_path \in SceneFiles :
          /\ LoadAllFromObj(file_path).error = ""
          /\ model_names' = Insert(model_names, name, Len(models))
          /\ models' = Append(models, NewModel(name, LoadAllFromObj(file_path).meshes,
                                               loads + 1))
    /\ loads' = loads + 1
    /\ culled' = <<>>
    /\ normal' = <<>>
    /\ UNCHANGED <<sceneRest, camera, backface_culling>>

\* Transform::set_rotation_xyz on the transform of a model
SetModelRotationXyz ==
    /\ pc \in {"update", "presented"}
    /\ \E name \in DOMAIN model_names, rotation \in Tilts :
          /\ ModelOf(name).transform.rotation # rotation
          /\ models' = [models EXCEPT ![model_names[name] + 1].transform.rotation = rotation]
    /\ culled' = <<>>
    /\ normal' = <<>>
    /\ UNCHANGED transformRest

\* Transform::set_scale on the transform of a model
SetModelScale ==
    /\ pc \in {"update", "presented"}
    /\ \E name \in DOMAIN model_names, scale \in Scales :
          /\ ModelOf(name).transform.scale # scale
          /\ models' = [models EXCEPT ![model_names[name] + 1].transform.scale = scale]
    /\ culled' = <<>>
    /\ normal' = <<>>
    /\ UNCHANGED transformRest

\* Transform::set_rotation on the transform of the first mesh of a model
SetMeshRotation ==
    /\ pc \in {"update", "presented"}
    /\ \E name \in DOMAIN model_names, rotation \in Tilts :
          /\ ModelOf(name).meshes[1].transform.rotation # rotation
          /\ models' = [models EXCEPT
                            ![model_names[name] + 1].meshes[1].transform.rotation = rotation]
    /\ culled' = <<>>
    /\ normal' = <<>>
    /\ UNCHANGED transformRest

\* Transform::set_scale on the transform of the first mesh of a model
SetMeshScale ==
    /\ pc \in {"update", "presented"}
    /\ \E name \in DOMAIN model_names, scale \in Scales :
          /\ ModelOf(name).meshes[1].transform.scale # scale
          /\ models' = [models EXCEPT
                            ![model_names[name] + 1].meshes[1].transform.scale = scale]
    /\ culled' = <<>>
    /\ normal' = <<>>
    /\ UNCHANGED transformRest

\* Transform::normal_matrix on the transform of a model or of its first mesh
ReadNormalMatrix ==
    /\ pc \in {"update", "presented"}
    /\ \E name \in DOMAIN model_names :
          \E t \in {ModelOf(name).transform, ModelOf(name).meshes[1].transform} :
              normal' = [transform |-> t, matrix |-> NormalMatrix(t)]
    /\ UNCHANGED <<transformRest, models, culled>>

NextTransform ==
    \/ AddFirstModel
    \/ SetModelRotationXyz
    \/ SetModelScale
    \/ SetMeshRotation
    \/ SetMeshScale
    \/ ReadNormalMatrix
    \/ UpdateScene
    \/ Render

SpecTransform == InitModels /\ [][NextTransform]_vars

---------------------------------------------------------------------------
(* Specification SpecOverlay: frames drawn in every render mode, with and  *)
(* without the grid                                                        *)

\* the scenes: a red triangle on the top edge of the framebuffer and a blue
\* one on its diagonal, sharing the corner (FbWidth, 0); either one nearer,
\* or both at one depth
OverlayScenes ==
    {<<SceneTri(<<0, 0>>, <<FbWidth, 0>>, c, ws[1], "red", sh),
       SceneTri(<<FbWidth, 0>>, <<0, FbHeight>>, d, ws[2], "blue", sh)>> :
        <<c, d, ws, sh>> \in
            ScenePoints \X ScenePoints
                \X {<<NearW, FarW>>, <<FarW, NearW>>, <<NearW, NearW>>} \X ShadingModes}

\* Engine::new: RenderMode::default() is FilledWireframe, draw_grid is true
InitOverlay ==
    /\ color_buffer = ClearedColor
    /\ depth_buffer = ClearedDepth
    /\ writes = <<>>
    /\ active = "Scanline"
    /\ triangles = <<>>
    /\ filled = <<>>
    /\ face = <<>>
    /\ polygon = <<>>
    /\ pc = "update"
    /\ projection = DefaultProjection
    /\ clip_position = <<>>
    /\ models = <<>>
    /\ model_names = NoNames
    /\ loads = 0
    /\ camera = NewCamera(Vec3(0, 0, FromInt(-5)))
    /\ backface_culling = TRUE
    /\ culled = <<>>
    /\ render_mode = "FilledWireframe"
    /\ draw_grid = TRUE
    /\ calls = <<>>
    /\ InitUnits

\* what the configuration of render leaves alone
overlayRest == <<color_buffer, depth_buffer, writes, active, triangles, filled, face,
                 polygon, pc, projection, clip_position, models, model_names, loads,
                 camera, backface_culling, culled, calls,
                 unitVars>>

\* Engine::set_render_mode. render clears both buffers first, so a frame
\* depends on the configuration at its render alone: the configuration is
\* followed until the first frame is drawn.
SetRenderMode ==
    /\ pc = "update"
    /\ \E mode \in RenderModes : mode # render_mode /\ render_mode' = mode
    /\ UNCHANGED <<overlayRest, draw_grid>>

\* an assignment to the public field draw_grid
SetDrawGrid ==
    /\ pc = "update"
    /\ draw_grid' = ~draw_grid
    /\ UNCHANGED <<overlayRest, render_mode>>

\* Engine::update with a static scene and camera, as Update
UpdateOverlay ==
    /\ pc \in {"update", "presented"}
    /\ IF triangles = <<>> THEN triangles' \in OverlayScenes ELSE triangles' = triangles
    /\ pc' = "render"
    /\ UNCHANGED <<color_buffer, depth_buffer, writes, active, filled, face, polygon>>
    /\ frames' = 0
    /\ owners' = Owners(models)
    /\ UNCHANGED <<engineRest, sideVars>>

NextOverlay == SetRenderMode \/ SetDrawGrid \/ UpdateOverlay \/ Render

SpecOverlay == InitOverlay /\ [][NextOverlay]_vars

---------------------------------------------------------------------------
(* Specification SpecLine: lines are drawn between endpoints anywhere in   *)
(* the range of i32, in a build with and in a build without overflow checks *)

\* the coordinates of the endpoints: the ends of the range of i32, and
\* values in and around the framebuffer
LineCoords == {I32Min, -1, 0, 1, 3, I32Max}

\* the clip-space w of the endpoints
LineWs == {NearW, FarW}

\* what the line actions leave alone
lineRest == <<writes, active, triangles, filled, face, polygon, engineRest, textureVars,
              normal, frames, owners, windowVars>>

\* one call of Renderer::draw_line_bresenham on the cleared framebuffer; a
\* panic ends the program, and so does a loop that does not end
DrawLine ==
    /\ pc = "update"
    /\ line = <<>>
    /\ \E build \in Builds, x0, y0, x1, y1 \in LineCoords, w0, w1 \in LineWs :
          \E run \in {DrawLineIn(build, x0, y0, w0, x1, y1, w1, WIREFRAME)} :
              /\ line' = [build |-> build, x0 |-> x0, y0 |-> y0, w0 |-> w0,
                          x1 |-> x1, y1 |-> y1, w1 |-> w1,
                          writes |-> run.writes, outcome |-> run.outcome]
              /\ color_buffer' = ApplyWrites(Fb, run.writes).color
              /\ depth_buffer' = ApplyWrites(Fb, run.writes).depth
              /\ pc' = IF run.outcome = "returned" THEN pc ELSE run.outcome
    /\ UNCHANGED lineRest

\* Renderer::clear and Renderer::clear_depth after a line was drawn
ClearLine ==
    /\ pc = "update"
    /\ line # <<>>
    /\ color_buffer' = ClearedColor
    /\ depth_buffer' = ClearedDepth
    /\ line' = <<>>
    /\ UNCHANGED <<pc, lineRest>>

NextLine == DrawLine \/ ClearLine

SpecLine == InitModels /\ [][NextLine]_vars

---------------------------------------------------------------------------
(* Specification SpecWindow: SDL queues events as keys and buttons are     *)
(* pressed and released, and the program polls them                        *)

MaxEvents == 2       \* events queued between two polls

\* the keys pressed: two that share a flag of the input state, one that is
\* mapped to a discrete key
Keycodes == {"LShift", "LCtrl", "Num1"}

\* what the window actions leave alone
windowRest == <<color_buffer, depth_buffer, writes, active, triangles, filled, face,
                polygon, pc, engineRest, textureVars, normal, frames, owners, line>>

\* an event joins the queue; the record of the last poll is dropped
Queue(e) ==
    /\ Len(event_pump) < MaxEvents
    /\ event_pump' = Append(event_pump, e)
    /\ polled' = <<>>
    /\ UNCHANGED <<window, windowRest>>

\* a key goes down: SDL queues a KeyDown that is not a repeat
PressKey ==
    \E keycode \in Keycodes \ keyboard :
        /\ Queue(SdlEvent("KeyDown", keycode, FALSE, 0, 0, ""))
        /\ keyboard' = keyboard \cup {keycode}

\* a key is held: SDL queues a KeyDown that is a repeat
RepeatKey ==
    \E keycode \in keyboard :
        /\ Queue(SdlEvent("KeyDown", keycode, TRUE, 0, 0, ""))
        /\ UNCHANGED keyboard

\* a key goes up: SDL queues a KeyUp
ReleaseKey ==
    \E keycode \in keyboard :
        /\ Queue(SdlEvent("KeyUp", keycode, FALSE, 0, 0, ""))
        /\ keyboard' = keyboard \ {keycode}

\* the window is closed or resized, the mouse is moved or clicked
WindowOrMouseEvent ==
    /\ \E e \in {SdlEvent("Quit", "", FALSE, 0, 0, ""),
                 SdlEvent("Resized", "", FALSE, 8, 6, ""),
                 SdlEvent("MouseMotion", "", FALSE, 1, -1, ""),
                 SdlEvent("MouseButtonDown", "", FALSE, 0, 0, "Right"),
                 SdlEvent("MouseButtonDown", "", FALSE, 0, 0, "Left")} : Queue(e)
    /\ UNCHANGED keyboard

\* Window::poll_events
PollEvents ==
    /\ \E st \in {PollEventsOf(window.input_state, event_pump, window.mouse_captured)} :
          /\ window' = [window EXCEPT !.input_state = st.input_state]
          /\ polled' = [events |-> event_pump, before |-> window.input_state,
                        result |-> st.result]
    /\ event_pump' = <<>>
    /\ UNCHANGED <<keyboard, windowRest>>

\* Window::toggle_mouse_capture: capture_mouse clears the accumulated delta
ToggleMouseCapture ==
    /\ window' = IF window.mouse_captured
                 THEN [window EXCEPT !.mouse_captured = FALSE]
                 ELSE [window EXCEPT !.mouse_captured = TRUE,
                                     !.input_state.mouse_delta = <<0, 0>>]
    /\ polled' = <<>>
    /\ UNCHANGED <<keyboard, event_pump, windowRest>>

NextWindow ==
    \/ PressKey
    \/ RepeatKey
    \/ ReleaseKey
    \/ WindowOrMouseEvent
    \/ PollEvents
    \/ ToggleMouseCapture

SpecWindow == InitModels /\ [][NextWindow]_vars

---------------------------------------------------------------------------
(* Specification SpecTexture: a texture is set and sampled *)

MaxTexSize == 3      \* textures of 1 .. MaxTexSize texels in width and in height

\* texture coordinates sampled: in and out of [0, 1], on and off the texel
\* boundaries
SampleCoords == {-One - Half, -Half, -1, 0, 1, Half, One - 1, One, One + Half}

\* what the texture actions leave alone
textureRest == <<color_buffer, depth_buffer, writes, active, triangles, filled, face,
                 polygon, pc, projection, clip_position, models, model_names, loads,
                 camera, backface_culling, culled, render_mode, draw_grid, calls, normal,
                 frames, owners, laterVars>>

\* Engine::set_texture with a texture Texture::from_file decoded
SetTexture ==
    /\ \E width, height \in 1 .. MaxTexSize : texture' = Image(width, height)
    /\ texel' = <<>>
    /\ UNCHANGED textureRest

\* Engine::clear_texture
ClearTexture ==
    /\ texture # NoTexture
    /\ texture' = NoTexture
    /\ texel' = <<>>
    /\ UNCHANGED textureRest

\* one call of Texture::sample on the texture
SampleTexture ==
    /\ texture # NoTexture
    /\ \E u, v \in SampleCoords :
          texel' = [u |-> u, v |-> v, color |-> Sample(texture, u, v)]
    /\ UNCHANGED <<texture, textureRest>>

NextTexture == SetTexture \/ ClearTexture \/ SampleTexture

SpecTexture == InitModels /\ [][NextTexture]_vars

---------------------------------------------------------------------------
(* Properties of the depth-tested framebuffer (checked under SpecFB) *)

\* the positions of the recorded writes addressed to pixel (x, y)
WritesTo(x, y) == {i \in 1 .. Len(writes) : writes[i].x = x /\ writes[i].y = y}

\* the largest depth among the writes at positions I (I non-empty)
MaxDepthOf(I) == CHOOSE d \in {writes[i].depth : i \in I} :
                    \A j \in I : writes[j].depth <= d

\* the earliest position in I whose write carries the largest depth
FirstMaxWrite(I) == CHOOSE i \in I :
                       /\ writes[i].depth = MaxDepthOf(I)
                       /\ \A j \in I : writes[j].depth = MaxDepthOf(I) => i <= j

Orders(n) == {f \in [1 .. n -> 1 .. n] : \A i, j \in 1 .. n : f[i] = f[j] => i = j}

Reordered(ws, f) == [i \in 1 .. Len(ws) |-> ws[f[i]]]

\* C3 as stated: every order of the recorded writes yields the same color
\* buffer and the same depth buffer.
C3_AnyOrderSameFrame ==
    \A f \in Orders(Len(writes)) : ApplyWrites(Cleared, Reordered(writes, f)) = Fb

\* two writes to one in-range pixel carry that pixel's maximum depth with
\* different colors
TiedColors ==
    \E i, j \in 1 .. Len(writes) :
        /\ writes[i].x = writes[j].x /\ writes[i].y = writes[j].y
        /\ InRange(writes[i].x, writes[i].y)
        /\ writes[i].depth = writes[j].depth
        /\ writes[i].depth = MaxDepthOf(WritesTo(writes[i].x, writes[i].y))
        /\ writes[i].color # writes[j].color

\* C3 amended: every order of the recorded writes yields the same depth
\* buffer, and the same color buffer unless two writes tie for a pixel's
\* maximum depth with different colors.
C3_OrderIndependent ==
    \A f \in Orders(Len(writes)) :
        LET fb == ApplyWrites(Cleared, Reordered(writes, f))
        IN  /\ fb.depth = depth_buffer
            /\ ~TiedColors => fb.color = color_buffer

\* three writes of distinct effect were applied: two to one pixel with
\* different depths and colors, nearer one last, and no tie for the maximum
C3_Witness ==
    /\ Len(writes) = MaxWrites
    /\ ~TiedColors
    /\ \E i, j \in 1 .. Len(writes) :
          /\ i < j
          /\ writes[i].x = writes[j].x /\ writes[i].y = writes[j].y
          /\ InRange(writes[i].x, writes[i].y)
          /\ writes[i].depth < writes[j].depth
          /\ writes[i].color # writes[j].color
          /\ color_buffer[Idx(writes[i].x, writes[i].y)] = writes[j].color

---------------------------------------------------------------------------
(* Properties of the rasterizers (checked under SpecRaster) *)

V0(tri) == tri.points[1]
V1(tri) == tri.points[2]
V2(tri) == tri.points[3]

NonDegenerate(tri) == Abs(EdgeFunction(V0(tri), V1(tri), V2(tri))) >= EPSILON

Other(type) == IF type = "Scanline" THEN "EdgeFunction" ELSE "Scanline"

\* the nearer of the two triangles of the scene: the one with the smaller w
Nearer == IF V0(triangles[1]).z < V0(triangles[2]).z THEN 1 ELSE 2

\* C2: with either rasterizer, a pixel covered by the triangle at w = NearW
\* and by the triangle at w = FarW shows the nearer triangle's color after
\* the frame, whichever of the two was submitted first.
C2_NearerTriangleWins ==
    (Rendered /\ NonDegenerate(triangles[1]) /\ NonDegenerate(triangles[2])) =>
        \A px \in filled[1] \cap filled[2] :
            color_buffer[Idx(px[1], px[2])] = ShadeColor(triangles[Nearer])

\* the center of pixel px is inside the triangle or on one of its edges
CenterInClosed(tri, px) ==
    LET p == Pt(CenterX(px[1]), CenterY(px[2]), 0)
        s == Sign(EdgeFunction(V0(tri), V1(tri), V2(tri)))
    IN  /\ s * EdgeFunction(V1(tri), V2(tri), p) >= 0
        /\ s * EdgeFunction(V2(tri), V0(tri), p) >= 0
        /\ s * EdgeFunction(V0(tri), V1(tri), p) >= 0

\* the center of pixel px is strictly inside the triangle
CenterStrictlyInside(tri, px) ==
    LET p == Pt(CenterX(px[1]), CenterY(px[2]), 0)
        s == Sign(EdgeFunction(V0(tri), V1(tri), V2(tri)))
    IN  /\ s * EdgeFunction(V1(tri), V2(tri), p) > 0
        /\ s * EdgeFunction(V2(tri), V0(tri), p) > 0
        /\ s * EdgeFunction(V0(tri), V1(tri), p) > 0

\* the center of px lies on the line through a and b
OnEdge(a, b, px) == EdgeFunction(a, b, Pt(CenterX(px[1]), CenterY(px[2]), 0)) = 0

\* inside under the top-left rule: in the closed triangle, and on no edge
\* that is not a top-left edge
InsideTopLeft(tri, px) ==
    /\ CenterInClosed(tri, px)
    /\ OnEdge(V1(tri), V2(tri), px) => IsTopLeft(V1(tri), V2(tri))
    /\ OnEdge(V2(tri), V0(tri), px) => IsTopLeft(V2(tri), V0(tri))
    /\ OnEdge(V0(tri), V1(tri), px) => IsTopLeft(V0(tri), V1(tri))

\* C4: the edge-function rasterizer writes exactly the pixels whose center is
\* inside the triangle under the top-left rule; in particular it writes every
\* pixel whose center is strictly inside.
C4_CoversExactlyInside ==
    (Rendered /\ active = "EdgeFunction") =>
        \A i \in 1 .. Len(triangles) :
            NonDegenerate(triangles[i]) =>
                filled[i] = {px \in Pixels : InsideTopLeft(triangles[i], px)}

\* C5: the two rasterizers write the same set of pixels for every triangle
\* of non-zero area: what the active one wrote is what the other one would
\* write.
C5_SamePixelSet ==
    Rendered =>
        \A i \in 1 .. Len(triangles) :
            NonDegenerate(triangles[i]) =>
                filled[i] = FillPixels(triangles[i], Other(active))

\* the screen position of a vertex
XY(v) == <<v.x, v.y>>

\* the scene's triangles share the edge between their first two vertices and
\* their third vertices lie strictly on opposite sides of it
SharesEdge ==
    LET t1 == triangles[1]
        t2 == triangles[2]
    IN  /\ {XY(V0(t1)), XY(V1(t1))} = {XY(V0(t2)), XY(V1(t2))}
        /\ Sign(EdgeFunction(V0(t1), V1(t1), V2(t1)))
             * Sign(EdgeFunction(V0(t1), V1(t1), V2(t2))) < 0

\* C6: two triangles that share an edge and lie on opposite sides of it have
\* no pixel written by both fills of the edge-function rasterizer.
C6_NoPixelWrittenTwice ==
    (Rendered /\ active = "EdgeFunction" /\ SharesEdge) =>
        filled[1] \cap filled[2] = {}

\* the pixels whose center lies on the shared edge, between its end points
SharedEdgePixels ==
    LET a == V0(triangles[1])
        b == V1(triangles[1])
    IN  {px \in Pixels :
            /\ OnEdge(a, b, px)
            /\ CenterX(px[1]) >= Min2(a.x, b.x) /\ CenterX(px[1]) <= Max2(a.x, b.x)
            /\ CenterY(px[2]) >= Min2(a.y, b.y) /\ CenterY(px[2]) <= Max2(a.y, b.y)}

\* C7: every pixel whose center lies on the edge shared by two triangles is
\* written by at least one of the two fills of the edge-function rasterizer.
C7_SharedEdgeCovered ==
    (Rendered /\ active = "EdgeFunction" /\ SharesEdge) =>
        SharedEdgePixels \subseteq (filled[1] \cup filled[2])

---------------------------------------------------------------------------
(* Properties of the clipper and of the pipeline (checked under SpecPipeline) *)

PlaneIndex == 1 .. Len(Planes)

ClipTol == 4 * EPSILON

FaceInDepthRange ==
    /\ face # <<>>
    /\ \A j \in 1 .. Len(face) :
          face[j].w > 0 /\ face[j].z >= -face[j].w /\ face[j].z <= face[j].w

\* the face as a screen triangle, without clipping
UnclippedTri == LET sv == ScreenVertices(face)
                IN  Tri(sv[1], sv[2], sv[3], "red", <<"red", "red", "red">>, "Flat")

\* the pixels written for the fan triangles of the clipped face
WrittenPixels == UNION {filled[i] : i \in 1 .. Len(filled)}

\* C9: the pixels written for the fan triangles of a clipped face are the
\* framebuffer pixels whose center is inside the unclipped face under the
\* top-left rule.
C9_ClippedFanMatchesReference ==
    (Rendered /\ FaceInDepthRange /\ NonDegenerate(UnclippedTri)) =>
        WrittenPixels = {px \in Pixels : InsideTopLeft(UnclippedTri, px)}

---------------------------------------------------------------------------
(* Properties of the projection (checked under SpecProjection) *)

\* the slack allowed to a projected depth: a sixteenth of w, at least ClipTol
ProjTol(w) == Max2(ClipTol, Abs(w) \div 16)

\* C11: the projection maps a view-space point with near <= z <= far to a
\* clip-space position with w > 0 and -w <= z <= w; a point of the view axis
\* at z = near gets z/w = -1 and one at z = far gets z/w = +1 (up to rounding).
C11_DepthRangeMapped ==
    (clip_position # <<>>
       /\ clip_position.view.z >= projection.z_near
       /\ clip_position.view.z <= projection.z_far) =>
        LET v == clip_position.view
            c == clip_position.clip
        IN  /\ c.w > 0
            /\ c.z >= -c.w - ProjTol(c.w)
            /\ c.z <= c.w + ProjTol(c.w)
            /\ (v.x = 0 /\ v.y = 0 /\ v.z = projection.z_near) =>
                  Abs(c.z + c.w) <= ProjTol(c.w)
            /\ (v.x = 0 /\ v.y = 0 /\ v.z = projection.z_far) =>
                  Abs(c.z - c.w) <= ProjTol(c.w)

---------------------------------------------------------------------------
(* The near-plane triangle (checked under SpecPipeline) *)

\* C12 as stated: clipping the near-plane triangle yields a polygon of 4 or 5
\* vertices, and its fan 2 or 3 triangles.
C12_FourOrFiveVertices ==
    face = NearPlaneTriangle =>
        /\ Len(polygon) \in {4, 5}
        /\ Len(Triangulate(polygon)) \in {2, 3}

\* C12 amended: clipping the near-plane triangle yields a polygon of 6
\* vertices, and its fan around the first of them (v0, vi, vi+1) 4 triangles.
C12_SixVerticesFourTriangles ==
    face = NearPlaneTriangle =>
        /\ Len(polygon) = 6
        /\ Len(Triangulate(polygon)) = 4
        /\ \A i \in 1 .. 4 : Triangulate(polygon)[i] =
              <<polygon[1], polygon[i + 1], polygon[i + 2]>>

\* the near-plane triangle went through update(): it was cut by the planes
\* (no vertex of it survives) and a polygon came back
C12_Witness ==
    /\ pc = "render"
    /\ face = NearPlaneTriangle
    /\ ~IsEmpty(polygon)
    /\ \A i \in 1 .. Len(polygon) : \A j \in 1 .. Len(face) : polygon[i] # face[j]

---------------------------------------------------------------------------
(* Properties of the model list (checked under SpecModels) *)

\* every name of the lookup has an index below model_count(), and the model at
\* that index was created under that name
NamesResolve ==
    \A name \in DOMAIN model_names :
        /\ model_names[name] >= 0
        /\ model_names[name] < Len(models)
        /\ ModelOf(name).name = name

\* a step that removes one model leaves every remaining name on the model it
\* resolved to before, and the remaining models in their order
RemovalKeepsOthers ==
    Len(models') = Len(models) - 1 =>
        /\ \A name \in DOMAIN model_names' :
              /\ name \in DOMAIN model_names
              /\ models'[model_names'[name] + 1] = ModelOf(name)
        /\ \E k \in 1 .. Len(models) :
              models' = SubSeq(models, 1, k - 1) \o SubSeq(models, k + 1, Len(models))

\* C13: after any sequence of add_model, remove_model and clear_models every
\* name of the lookup resolves, within range, to a model added under that
\* name; a removal keeps the other names on their models and the remaining
\* models in their order.
C13_NamesStayValid == []NamesResolve /\ [][RemovalKeepsOthers]_vars

\* a model was removed from in front of a named one: the first model ever
\* added is still first, and a named model sits earlier than it was added
C13_Witness ==
    /\ Len(models) >= 2
    /\ models[1].id = 1
    /\ \E name \in DOMAIN model_names :
          /\ model_names[name] >= 1
          /\ ModelOf(name).id > model_names[name] + 1

---------------------------------------------------------------------------
(* Properties of the camera (checked under SpecCamera) *)

PitchWithinLimits ==
    /\ camera.pitch_min <= camera.pitch
    /\ camera.pitch <= camera.pitch_max

\* C15 as stated: after any sequence of camera operations, set_pitch_limits
\* among them, pitch_min <= pitch <= pitch_max.
C15_PitchWithinLimits == PitchWithinLimits

\* C15, amended: pitch_min <= pitch <= pitch_max holds as long as every
\* set_pitch_limits call had min <= max, and then the default limits keep the
\* pitch within 89 degrees either way; a call with min > max panics and
\* leaves pitch_min > pitch_max behind.
C15_PitchWithinOrderedLimits ==
    /\ pc # "panicked" => PitchWithinLimits
    /\ pc # "panicked" /\ camera.pitch_min = -ToRadians(89) /\ camera.pitch_max = ToRadians(89)
          => -ToRadians(89) <= camera.pitch /\ camera.pitch <= ToRadians(89)
    /\ pc = "panicked" => camera.pitch_min > camera.pitch_max

\* the pitch was clamped: it sits on an upper limit that set_pitch_limits
\* lowered, and on the default lower limit
C15_Witness ==
    /\ pc # "panicked"
    /\ camera.pitch_max = QuarterPi
    /\ camera.pitch = camera.pitch_max
    /\ camera.position # Vec3(0, 0, FromInt(-5))

\* C16 as stated: yaw and roll lie in [0, 2*pi).
C16_YawRollWrapped ==
    /\ 0 <= camera.yaw /\ camera.yaw < TAU
    /\ 0 <= camera.roll /\ camera.roll < TAU

YawRollRanges ==
    /\ -PI <= camera.yaw /\ camera.yaw < TAU
    /\ -PI < camera.roll /\ camera.roll <= PI

\* C16, amended: rotate and rotate_yaw leave the yaw in [0, 2*pi); look_at
\* leaves it in [-pi, pi] as atan2 returned it, or as it was when the target
\* is straight above or below; the roll lies in (-pi, pi] at all times.
C16_YawRollRanges ==
    /\ YawRollRanges
    /\ \A yaw_delta \in AngleDeltas :
          /\ 0 <= RotateYaw(camera, yaw_delta).yaw
          /\ RotateYaw(camera, yaw_delta).yaw < TAU
          /\ \A pitch_delta \in AngleDeltas :
                /\ 0 <= Rotate(camera, yaw_delta, pitch_delta).yaw
                /\ Rotate(camera, yaw_delta, pitch_delta).yaw < TAU
    /\ \A target \in LookTargets :
          \/ LookAt(camera, target).yaw = camera.yaw
          \/ /\ -PI <= LookAt(camera, target).yaw
             /\ LookAt(camera, target).yaw <= PI

\* look_at has left a negative yaw and rotate_roll a negative roll
C16_Witness == camera.yaw < 0 /\ camera.roll < 0

---------------------------------------------------------------------------
(* The frame condition of the pixel writes (checked under SpecPixel) *)

\* a recorded write is depth-tested when it carries a depth
IsDepthWrite(w) == "depth" \in DOMAIN w

\* the step is one pixel write, the last of the recorded writes
IsWriteStep == Len(writes') = Len(writes) + 1

\* the write of the step addresses a pixel of the buffer and, when it is
\* depth-tested, its depth is above the stored one
WriteLands(w) ==
    /\ InRange(w.x, w.y)
    /\ IsDepthWrite(w) => w.depth > depth_buffer[Idx(w.x, w.y)]

WriteEffect ==
    IsWriteStep =>
        LET w == writes'[Len(writes')]
        IN  /\ \A i \in PixelIndex :
                  ~(WriteLands(w) /\ i = Idx(w.x, w.y)) =>
                      /\ color_buffer'[i] = color_buffer[i]
                      /\ depth_buffer'[i] = depth_buffer[i]
            /\ WriteLands(w) =>
                  /\ color_buffer'[Idx(w.x, w.y)] = w.color
                  /\ depth_buffer'[Idx(w.x, w.y)] =
                        IF IsDepthWrite(w) THEN w.depth ELSE depth_buffer[Idx(w.x, w.y)]

\* C17: a set_pixel_with_depth call changes only the addressed pixel, and only
\* when the coordinates are in range and the depth is above the stored one,
\* and then stores both the color and the depth; a call with a depth at or
\* below the stored one or with coordinates out of range, of set_pixel as
\* well, changes no element of either buffer.
C17_OnlyAddressedPixel == [][WriteEffect]_vars

\* the writes so far hold one that passed the depth test, a later one to the
\* same pixel that was rejected with a depth at or below the stored one, and
\* a set_pixel out of range
C17_Witness ==
    /\ \E j, k \in 1 .. Len(writes) :
          /\ j < k
          /\ IsDepthWrite(writes[j]) /\ IsDepthWrite(writes[k])
          /\ InRange(writes[j].x, writes[j].y)
          /\ writes[k].x = writes[j].x /\ writes[k].y = writes[j].y
          /\ writes[k].depth <= writes[j].depth
          /\ writes[k].color # writes[j].color
          /\ color_buffer[Idx(writes[j].x, writes[j].y)] = writes[j].color
    /\ \E k \in 1 .. Len(writes) :
          ~IsDepthWrite(writes[k]) /\ ~InRange(writes[k].x, writes[k].y)

---------------------------------------------------------------------------
(* Degenerate triangles (checked under SpecRaster) *)

\* C19: a triangle whose three screen points are collinear or coincident
\* (zero signed area) causes no pixel write, whichever rasterizer is active.
C19_DegenerateWritesNothing ==
    Rendered =>
        \A i \in 1 .. Len(triangles) :
            EdgeFunction(V0(triangles[i]), V1(triangles[i]), V2(triangles[i])) = 0
                => filled[i] = {}

---------------------------------------------------------------------------
(* Overlays (checked under SpecOverlay) *)

IsOverlayWrite(call) == call.kind \in {"wireframe", "vertex"}

\* the overlay writes of the last render that address the pixel p
OverlayAt(p) ==
    {i \in 1 .. Len(calls) :
        /\ IsOverlayWrite(calls[i])
        /\ InRange(calls[i].x, calls[i].y)
        /\ Idx(calls[i].x, calls[i].y) = p}

\* a vertex marker is stored whatever the depth; a wireframe write is stored
\* when its depth is above the depth it finds in the buffer
Lands(call) == call.kind = "vertex" \/ call.depth > call.stored

LandedAt(p) == {i \in OverlayAt(p) : Lands(calls[i])}

LastOf(I) == CHOOSE i \in I : \A j \in I : j <= i

\* every fill_triangle call of the frame comes before every overlay write
OverlaysAfterFills ==
    \A j \in 1 .. Len(calls) :
        calls[j].kind = "fill" => \A i \in 1 .. j : calls[i].kind = "fill"

\* C18 as stated: the overlay writes of a frame come after all its fills, and
\* a pixel that overlay writes address ends with the color of the last of
\* them.
C18_LaterOverlayWins ==
    Rendered =>
        /\ OverlaysAfterFills
        /\ \A p \in PixelIndex :
              OverlayAt(p) # {} => color_buffer[p] = calls[LastOf(OverlayAt(p))].color

\* C18, amended: the overlay writes of a frame come after all its fills; a
\* pixel ends with the color of the last overlay write to it that was stored
\* (a vertex marker, or a wireframe write that passed the depth test), and
\* with no overlay color when none was stored.
C18_LastStoredOverlayWins ==
    Rendered =>
        /\ OverlaysAfterFills
        /\ \A p \in PixelIndex :
              IF LandedAt(p) # {}
              THEN color_buffer[p] = calls[LastOf(LandedAt(p))].color
              ELSE color_buffer[p] \notin {WIREFRAME, VERTEX}

\* a frame with fills in which a wireframe write was stored over a vertex
\* marker, and in which another wireframe write, the last to its pixel, was
\* rejected by the depth test
C18_Witness ==
    /\ Rendered
    /\ \E j \in 1 .. Len(calls) : calls[j].kind = "fill"
    /\ \E p \in PixelIndex :
          /\ OverlayAt(p) # {}
          /\ calls[LastOf(OverlayAt(p))].kind = "wireframe"
          /\ Lands(calls[LastOf(OverlayAt(p))])
          /\ \E i \in OverlayAt(p) : calls[i].kind = "vertex"
          /\ color_buffer[p] = WIREFRAME
    /\ \E q \in PixelIndex :
          /\ OverlayAt(q) # {}
          /\ ~Lands(calls[LastOf(OverlayAt(q))])

---------------------------------------------------------------------------
(* Backface culling (checked under SpecScene) *)

\* the list of culling decisions is that of the scene as it stands
Updated == culled # <<>>

\* the face of a culling decision is counter-clockwise in the x-y plane of
\* its model: (p1 - p0) x (p2 - p0) points to +Z
IsCcw(e) ==
    LET mesh == models[e.ref.model].meshes[e.ref.mesh]
        local == FacePositions(mesh, mesh.faces[e.ref.face])
    IN  Cross(Sub3(local[2], local[1]), Sub3(local[3], local[1])).z > 0

\* the angle the model of a culling decision is turned by about Y
TurnOf(e) == models[e.ref.model].transform.rotation.y

\* the camera is on the +Z side, or on the -Z side, of the face
CameraOnPlusZ(e) == camera.position.z > e.world[1].z
CameraOnMinusZ(e) == camera.position.z < e.world[1].z

---------------------------------------------------------------------------
(* Texture sampling (checked under SpecTexture) *)

\* the texel of row y (0 at the top) and column x
TexelAt(tex, x, y) == tex.data[y * tex.width + x + 1]

\* C21: sample(0.0, 0.0) returns the first texel of the last image row,
\* pixels[(H-1)*W + 0].
C21_OriginIsBottomRow ==
    texel # <<>> /\ texel.u = 0 /\ texel.v = 0 =>
        texel.color = TexelAt(texture, 0, texture.height - 1)

---------------------------------------------------------------------------
(* Barycentric weights of the edge-function rasterizer (checked under      *)
(* SpecRaster)                                                             *)

\* the unbiased edge values at the center of pixel px
EdgeValues(tri, px) ==
    <<EdgeFunction(V1(tri), V2(tri), Pt(CenterX(px[1]), CenterY(px[2]), 0)),
      EdgeFunction(V2(tri), V0(tri), Pt(CenterX(px[1]), CenterY(px[2]), 0)),
      EdgeFunction(V0(tri), V1(tri), Pt(CenterX(px[1]), CenterY(px[2]), 0))>>

Sum3(t) == t[1] + t[2] + t[3]

\* how far the three weights may sum from 1 by rounding alone: half a unit
\* for each of the three products, and the half unit of 1/area carried by
\* the edge values, which sum to the area
LambdaSlack(area) == (Abs(area) + 3 * One) \div (2 * One)

\* the weights of the pixel sum to 1 up to rounding
WeightsSumToOne(tri, px) ==
    Abs(One - Sum3(EdgeLambda(V0(tri), V1(tri), V2(tri), px[1], px[2])))
        <= LambdaSlack(EdgeFunction(V0(tri), V1(tri), V2(tri)))

---------------------------------------------------------------------------
(* Normal matrices (checked under SpecTransform)                           *)

HasZeroScale(t) == t.scale.x = 0 \/ t.scale.y = 0 \/ t.scale.z = 0

IsIdentity(m) ==
    \A row, col \in 1 .. 4 : m[row][col] = IF row = col THEN One ELSE 0

\* the transforms update combined for the face of a record of culled
ModelTransformOf(rec) == models[rec.ref.model].transform
MeshTransformOf(rec) == models[rec.ref.model].meshes[rec.ref.mesh].transform

C23_TransformNormalIsIdentity ==
    normal # <<>> /\ HasZeroScale(normal.transform) => IsIdentity(normal.matrix)

---------------------------------------------------------------------------
(* Faces inside the view frustum (checked under SpecScene)                 *)

\* the view-space positions update computes from the world positions of a face
ViewPositions(world) == [i \in 1 .. 3 |-> MulVec3(ViewMatrix(camera), world[i])] \o <<>>

\* a view-space point strictly inside the frustum of projection p: between
\* the near and far planes and within the field of view
StrictlyInside(v, p) ==
    /\ p.z_near < v.z
    /\ v.z < p.z_far
    /\ Abs(v.y) < FMul(v.z, TanHalfFov(p.fov_y))
    /\ Abs(v.x) < FMul(FMul(v.z, TanHalfFov(p.fov_y)), p.aspect_ratio)

FaceInsideFrustum(rec) ==
    \A i \in 1 .. 3 : StrictlyInside(ViewPositions(rec.world)[i], projection)

\* C24: with backface culling disabled and the projection of Engine::new, a
\* face whose three view-space vertices are strictly inside the view frustum
\* leaves update as exactly one screen triangle.
C24_VisibleFaceEmitsOneTriangle ==
    Updated /\ ~backface_culling /\ projection = DefaultProjection =>
        \A i \in 1 .. Len(culled) :
            FaceInsideFrustum(culled[i]) => Len(culled[i].triangles) = 1

---------------------------------------------------------------------------
(* Frames rendered in a row (checked under SpecOverlay, where every other  *)
(* call is made before update)                                             *)

---------------------------------------------------------------------------
(* Lines (checked under SpecLine)                                          *)

\* the number of pixels of the line between the endpoints of the call
LinePixels == Max2(Abs(line.x1 - line.x0), Abs(line.y1 - line.y0)) + 1

\* the call returned after one write per pixel of the line, the first at
\* (x0, y0) with the depth of the first endpoint (t = 0), the last at
\* (x1, y1) with the depth of the second (t = 1)
LineDrawnEndToEnd ==
    /\ line.outcome = "returned"
    /\ Len(line.writes) = LinePixels
    /\ line.writes[1].x = line.x0
    /\ line.writes[1].y = line.y0
    /\ line.writes[1].depth = FDiv(One, line.w0) + WIREFRAME_DEPTH_BIAS
    /\ line.writes[Len(line.writes)].x = line.x1
    /\ line.writes[Len(line.writes)].y = line.y1
    /\ line.writes[Len(line.writes)].depth
           = FDiv(One, IF LinePixels = 1 THEN line.w0 ELSE line.w1) + WIREFRAME_DEPTH_BIAS

\* C26: for all integer endpoints draw_line_bresenham returns after exactly
\* max(|x1 - x0|, |y1 - y0|) + 1 writes, the first at (x0, y0) and the last
\* at (x1, y1), the interpolation parameter running from 0 to exactly 1.
C26_LineDrawnEndToEnd == line # <<>> => LineDrawnEndToEnd

\* the endpoints are so close that no operation of the call overflows
LineInRange ==
    /\ Abs(line.x1 - line.x0) <= I32Max \div 2
    /\ Abs(line.y1 - line.y0) <= I32Max \div 2

\* the part of C26 that holds: lines whose extent is at most half the
\* largest i32 are drawn end to end
C26_ShortLineDrawnEndToEnd == line # <<>> /\ LineInRange => LineDrawnEndToEnd

---------------------------------------------------------------------------
(* Event polling (checked under SpecWindow)                                *)

IsQuit(e) == e.type = "Quit"

\* the events that stand for a discrete event other than Quit
IsDiscrete(e) ==
    \/ e.type = "Resized"
    \/ e.type = "KeyDown" /\ ~e.repeat /\ e.keycode \in DiscreteKeys
    \/ e.type = "MouseButtonDown" /\ e.mouse_btn = "Right"

\* the discrete event an event stands for
DiscreteOf(e) ==
    CASE e.type = "Resized" -> WindowEvent("Resize", e.w, e.h, "")
      [] e.type = "KeyDown" -> WindowEvent("KeyPress", 0, 0, e.keycode)
      [] OTHER -> WindowEvent("RightMouseDown", 0, 0, "")

\* the event the call is to return for the events it polled
ExpectedResult(events) ==
    IF \E i \in 1 .. Len(events) : IsQuit(events[i])
    THEN WindowEvent("Quit", 0, 0, "")
    ELSE IF \E i \in 1 .. Len(events) : IsDiscrete(events[i])
    THEN DiscreteOf(events[CHOOSE i \in 1 .. Len(events) :
                               /\ IsDiscrete(events[i])
                               /\ \A j \in 1 .. i - 1 : ~IsDiscrete(events[j])])
    ELSE NoEvent

\* the key events among the events polled: every KeyDown and KeyUp, or
\* every KeyUp and every KeyDown that is not a repeat
IsKeyEvent(e) == e.type \in {"KeyDown", "KeyUp"}
IsFreshKeyEvent(e) == e.type = "KeyUp" \/ (e.type = "KeyDown" /\ ~e.repeat)

\* the key events counted: all of them, or the fresh ones only
Counted(e, repeats) == IF repeats THEN IsKeyEvent(e) ELSE IsFreshKeyEvent(e)

RECURSIVE KeysApplied(_, _, _)
\* the held-key state after update_key_state for each of the key events
\* counted, in arrival order
KeysApplied(input_state, events, repeats) ==
    IF events = <<>> THEN input_state
    ELSE KeysApplied(IF Counted(events[1], repeats)
                     THEN UpdateKeyState(input_state, events[1].keycode,
                                         events[1].type = "KeyDown")
                     ELSE input_state,
                     Tail(events), repeats)

\* the flags of the held keys
Held(input_state) == [input_state EXCEPT !.mouse_delta = <<0, 0>>]

---------------------------------------------------------------------------
(* Properties of the per-model triangle lists (checked under SpecRoster) *)

\* the per-model triangle lists built by the last update have one entry per
\* model of the scene as it is now, in the same order: entry i was produced by
\* the model that is i-th in the list render looks textures up in
ListsMatchModels ==
    /\ Len(owners) = Len(models)
    /\ \A i \in 1 .. Len(owners) : owners[i] = models[i].id

\* C28: whenever render runs, after any sequence of add_model, remove_model,
\* clear_models and update, the per-model triangle lists have exactly one
\* entry per model currently in the scene, in the same order (so that no list
\* of a removed model is drawn and each list meets its own model's texture).
C28_RenderDrawsCurrentModels == [][frames' = frames + 1 => ListsMatchModels]_vars

---------------------------------------------------------------------------
(* Properties of the name lookup against the model list (checked under
   SpecModels) *)

\* Engine::model_count
ModelCount == Len(models)

\* the model at a 0-based index is the one some name resolves to, so that
\* Engine::model and Engine::remove_model reach it
ReachableByName(index) == \E name \in DOMAIN model_names : model_names[name] = index

\* C29: after any sequence of add_model, remove_model and clear_models, two
\* models added under one name among them, the lookup holds exactly one entry
\* per model: the number of names is model_count() and every model of the
\* scene is reached by a name.
C29_OneNamePerModel ==
    /\ Cardinality(DOMAIN model_names) = ModelCount
    /\ \A index \in 0 .. ModelCount - 1 : ReachableByName(index)

---------------------------------------------------------------------------
(* Properties of the vertex counts of the clipper (checked under
   SpecPipeline) *)

RECURSIVE StagesFrom(_, _)
\* the values result takes in the loop of clip_polygon from plane k on: the
\* polygon it starts from, then the polygon after each plane it is clipped
\* against
StagesFrom(vs, k) ==
    IF k > Len(Planes) \/ IsEmpty(vs) THEN <<vs>>
    ELSE <<vs>> \o StagesFrom(ClipAgainstPlane(vs, Planes[k]), k + 1)

\* clip_against_plane turned a polygon of n >= 3 vertices into one of no
\* vertices or of 3 to n + 1
CountAfterPlane(before, after) ==
    Len(before) >= 3 =>
        \/ Len(after) = 0
        \/ 3 <= Len(after) /\ Len(after) <= Len(before) + 1

\* the loop went through these stages and returned the polygon result: every
\* plane kept the counts, result is the last stage, and it has no vertices or
\* 3 to 9, none whenever is_empty() holds
StagesCounted(stages, result) ==
    /\ \A k \in 1 .. Len(stages) - 1 : CountAfterPlane(stages[k], stages[k + 1])
    /\ result = stages[Len(stages)]
    /\ Len(result) = 0 \/ (3 <= Len(result) /\ Len(result) <= 9)
    /\ IsEmpty(result) => result = <<>>

\* C30: clip_against_plane on a convex polygon of n >= 3 vertices returns 0
\* vertices or 3 to n + 1, never 1 or 2; hence clip_polygon of a triangle
\* returns no vertices or 3 to 9, and a polygon for which is_empty() is true
\* has no vertices.
C30_ClippedVertexCounts == face # <<>> => StagesCounted(StagesFrom(face, 1), polygon)

\* some plane added a vertex to the polygon it was given
Grown(stages) == \E k \in 1 .. Len(stages) - 1 : Len(stages[k + 1]) = Len(stages[k]) + 1

\* a triangle that went through all six planes, was cut into a polygon of
\* more vertices on the way and came back with more than four
C30_Witness ==
    /\ face # <<>>
    /\ Len(polygon) > 4
    /\ Len(StagesFrom(face, 1)) = Len(Planes) + 1
    /\ Grown(StagesFrom(face, 1))

=============================================================================
